---- MODULE Spec2Model ----
(***************************************************************************)
(* Model of the turtle-trading run loop of eurusd_turtletrader_70_8: the   *)
(* two scripts whipsaw_0.2.py and whipsaw_0.1.py.  Both keep their data in *)
(* entry_data.json, each in its own format, so a behaviour is the life of  *)
(* one of them.  Unless a comment names whipsaw_0.1.py, line numbers are   *)
(* those of whipsaw_0.2.py.                                                *)
(*                                                                         *)
(* Units.  A price is an integer number of points; one point is a fifth of *)
(* the instrument's price increment (0.00001 for EUR.USD and AUD.CAD,      *)
(* 0.001 for GBP.JPY), so every increment is 5 points.  Quantities and     *)
(* money are integers; the inputs are chosen so that the divisions the     *)
(* code stores without rounding are exact.  A string the code slices       *)
(* (orderRef) is a sequence of tokens whose last token is its last         *)
(* character.  An exception raised inside IBAlgoStrategy.run is not caught *)
(* anywhere: it ends the process, and the next scheduled start of the      *)
(* script is a new pass over the instrument list.                          *)
(***************************************************************************)
EXTENDS Integers, Sequences, FiniteSets, TLC

VARIABLES
    version,    \* the script that is deployed: "0.1" or "0.2"
    store,      \* entry_data.json: symbol -> the symbol's json object
    venue,      \* the orders open at the broker (ib.openTrades())
    trace,      \* what the current pass did, in order
    info,       \* per symbol, the locals of run() in the current pass
                \* (i: the local i of the building case of whipsaw_0.1.py)
    idx,        \* position of the for loop of run() in the instrument list
    status,     \* "idle" | "running" | "done" | "crashed"
    runs,       \* number of loop iterations (instrument runs) so far
    ret         \* CallSpec: the last call of a function and what it returned

vars == <<version, store, venue, trace, info, idx, status, runs, ret>>

-----------------------------------------------------------------------------
(* Bounds of the model *)

\* the number of instrument runs (iterations of the loop of run(), over
\* all passes) a behaviour holds
MaxInstrumentRuns == 4

\* the largest cash balance (in units, long or short) of ClassifySpec
MaxExposure == 210
\* raw values up to MaxRaw points are quantized
MaxRaw == 23

-----------------------------------------------------------------------------
(* Program constants *)

\* whipsaw_0.2.py:71,73  the +/-100 unit band
NoiseBand == 100
\* whipsaw_0.2.py:188    a unit is four entries
EntriesPerUnit == 4

\* whipsaw_0.2.py:912-914  the instruments the main programme adds
Instruments == <<"GBP.JPY", "EUR.USD", "AUD.CAD">>

Symbols == {Instruments[i] : i \in 1..Len(Instruments)}

\* the entry tags of a unit, in the order of the json file
EntryTags == <<"entryA", "entryB", "entryC", "entryD">>

TagSet == {EntryTags[i] : i \in 1..Len(EntryTags)}

-----------------------------------------------------------------------------
(* Python arithmetic *)

\* round(n/d) for d # 0: Python 3 rounds a tie to the even neighbour
PyRound(n, d) ==
    LET nn == IF d < 0 THEN -n ELSE n
        dd == IF d < 0 THEN -d ELSE d
        q == nn \div dd
        r == nn - q * dd
    IN  IF 2 * r < dd THEN q
        ELSE IF 2 * r > dd THEN q + 1
        ELSE IF q % 2 = 0 THEN q ELSE q + 1

Abs(x) == IF x < 0 THEN -x ELSE x

\* truthiness of a number, as `if value:` tests it
TruthyNum(x) == x # 0

\* s[-1:] of a string held as a token sequence
LastChar(ref) == IF ref = <<>> THEN <<>> ELSE <<ref[Len(ref)]>>

-----------------------------------------------------------------------------
(* Records of the json file *)

ZeroEntry ==
    [action |-> "", orderType |-> "", tif |-> "", totalQuantity |-> 0,
     transmit |-> FALSE, priceCondition |-> 0, orderRef |-> <<>>,
     isMore |-> FALSE, slPrice |-> 0]

ZeroUnitInfo ==
    [maxUnitSize |-> 0, currentUnitSize |-> 0, exitAllPrice |-> 0,
     isLong |-> FALSE, isShort |-> FALSE,
     longEntry |-> ZeroEntry, shortEntry |-> ZeroEntry]

ZeroRecord ==
    [unitInfo |-> ZeroUnitInfo, entryInfo |-> [t \in TagSet |-> ZeroEntry]]

-----------------------------------------------------------------------------
(* What the broker and the market report to one run of one instrument *)

\* the account's base currency (the currency of its AvailableFunds value)
AccountBases == {"USD"}
\* CashBalance in BASE, and AvailableFunds
BaseCashBalances == {240000}
AvailableFundsValues == {100000}
\* no function has been called
NoCall == [fn |-> "none"]

\* no last bar
NoSnapshot ==
    [bars |-> FALSE, atr |-> 0, long_dcu |-> 0, long_dcl |-> 0,
     short_dcu |-> 0, short_dcl |-> 0]

\* the last bar of get_indicators(); bars = FALSE: no historical data came
Snapshots ==
    { [bars |-> TRUE, atr |-> 12, long_dcu |-> 11003, long_dcl |-> 10498,
       short_dcu |-> 10902, short_dcl |-> 10601],
      [bars |-> TRUE, atr |-> 20, long_dcu |-> 11203, long_dcl |-> 10398,
       short_dcu |-> 11004, short_dcl |-> 10702],
      [bars |-> TRUE, atr |-> 4, long_dcu |-> 11003, long_dcl |-> 10498,
       short_dcu |-> 10902, short_dcl |-> 10601],
      NoSnapshot }
\* CashBalance of the instrument's first currency (the live position)
CashBalances == {40, 300, 600, -300, 4000}
\* marketPrice() of the cross pair get_base_exchange asks for
MarketPrices == {2}

Quote(localSymbol) ==
    CASE localSymbol = "GBP.JPY" -> "JPY"
      [] localSymbol = "EUR.USD" -> "USD"
      [] localSymbol = "AUD.CAD" -> "CAD"

-----------------------------------------------------------------------------
(* Price Quantizer and Sizing Engine *)

\* the increment table of adjust_for_price_increments, in points;
\* <<>> where the code has no increment and returns None
increment_of(localSymbol) ==
    CASE localSymbol = "EUR.USD" -> <<5>>
      [] localSymbol = "GBP.JPY" -> <<5>>
      [] localSymbol = "AUD.CAD" -> <<5>>
      [] OTHER -> <<>>

\* mutant: the rounded quotient is not multiplied by the increment again
adjust_for_price_increments_quotient(localSymbol, num, den) ==
    LET inc == increment_of(localSymbol)[1]
    IN  PyRound(num, den * inc)

\* adjust_for_price_increments(instrument, num/den):
\* increment * round(value / increment)
adjust_for_price_increments(localSymbol, num, den) ==
    LET inc == increment_of(localSymbol)[1]
    IN  inc * PyRound(num, den * inc)

\* what a call of adjust_for_price_increments gives its caller: <<value>>,
\* or <<>> for the None of line 821 (a pair without increment is logged,
\* nothing is raised)
adjust_for_price_increments_ret(localSymbol, num, den) ==
    IF increment_of(localSymbol) = <<>>
    THEN [raises |-> "none", value |-> <<>>]
    ELSE [raises |-> "none",
          value |-> <<adjust_for_price_increments(localSymbol, num, den)>>]

\* get_atr_multiple(instrument, multiplier = 0.5)
get_atr_multiple(localSymbol, ind) ==
    adjust_for_price_increments(localSymbol, ind.atr, 2)

\* get_max_equity_at_risk(multiplier = 0.02): 2% of CashBalance in BASE
get_max_equity_at_risk(acct) == (acct.baseCash * 2) \div 100

\* get_base_exchange: the rate as a fraction [n, d]
get_base_exchange(localSymbol, acct, price) ==
    IF acct.base = Quote(localSymbol) THEN [n |-> 1, d |-> 1]
    ELSE IF Quote(localSymbol) # "USD" THEN [n |-> 1, d |-> price]
    ELSE [n |-> price, d |-> 1]

\* set_position_size: round(0.5% of AvailableFunds / sl_size), converted
set_position_size(localSymbol, acct, price, sl_size) ==
    LET fx == get_base_exchange(localSymbol, acct, price)
    IN  IF acct.base = Quote(localSymbol)
        THEN PyRound(acct.avail * 5, 1000 * sl_size)
        ELSE PyRound(acct.avail * 5 * fx.d, 1000 * fx.n * sl_size)

\* what a call of set_position_size gives its caller: the divisions of
\* lines 791 and 793-795 raise ZeroDivisionError for a divisor of zero
set_position_size_ret(localSymbol, acct, price, sl_size) ==
    LET fx == get_base_exchange(localSymbol, acct, price)
    IN  IF sl_size = 0 \/ (acct.base # Quote(localSymbol) /\ fx.n = 0)
        THEN [raises |-> "ZeroDivisionError", value |-> <<>>]
        ELSE [raises |-> "none",
              value |-> <<set_position_size(localSymbol, acct, price,
                                            sl_size)>>]

\* mutant: the band's upper edge counted as long
is_long_at_ge(current_unit_size) == current_unit_size >= NoiseBand

\* run(), lines 71-72: long when more than 100 units are held
is_long_at(current_unit_size) == current_unit_size > NoiseBand

\* run(), lines 73-74: short when fewer than -100 units are held
is_short_at(current_unit_size) == current_unit_size < -NoiseBand

\* run(), lines 68, 75-77: unit_full starts True and is cleared for an open
\* unit smaller than the maximum
unit_full_at(current_unit_size, max_unit_size) ==
    ~(/\ Abs(current_unit_size) < Abs(max_unit_size)
      /\ (is_long_at(current_unit_size) \/ is_short_at(current_unit_size)))

\* run(), lines 56-77: the locals of the initial variable setup.
\* raises: what the setup raises before it has changed anything
setup(localSymbol, inp) ==
    LET ind == inp.ind
        fx == get_base_exchange(localSymbol, inp.acct, inp.price)
        sl_size == get_atr_multiple(localSymbol, ind)
        mear == get_max_equity_at_risk(inp.acct)
        current_unit_size == (inp.cash * fx.n) \div fx.d
        max_unit_size == IF sl_size * fx.n = 0 THEN 0
                         ELSE (mear * fx.d) \div (sl_size * fx.n)
    IN  [raises |-> IF ~ind.bars THEN "KeyError"
                    ELSE IF sl_size * fx.n = 0 THEN "ZeroDivisionError"
                    ELSE "none",
         ind |-> ind,
         sl_size |-> sl_size,
         current_unit_size |-> current_unit_size,
         max_unit_size |-> max_unit_size,
         is_long |-> is_long_at(current_unit_size),
         is_short |-> is_short_at(current_unit_size),
         unit_full |-> unit_full_at(current_unit_size, max_unit_size)]

\* mutant: `or` for `and` in the test of line 82
branch_or(is_long, is_short, unit_full) ==
    IF ~is_long \/ ~is_short THEN "flat"
    ELSE IF ~unit_full THEN "building"
    ELSE "full"

\* run(), lines 82, 120: the branch the if / elif chain takes
branch(is_long, is_short, unit_full) ==
    IF ~is_long /\ ~is_short THEN "flat"
    ELSE IF ~unit_full THEN "building"
    ELSE "full"

\* the inputs of one run of one instrument; the divisions whose results the
\* code keeps unrounded are exact for them
InputsWith(localSymbol, cashBalances) ==
    { inp \in [cash : cashBalances, ind : Snapshots, price : MarketPrices,
               acct : [base : AccountBases, baseCash : BaseCashBalances,
                       avail : AvailableFundsValues]] :
        LET fx == get_base_exchange(localSymbol, inp.acct, inp.price)
            sl == get_atr_multiple(localSymbol, inp.ind)
        IN  /\ (inp.acct.baseCash * 2) % 100 = 0
            /\ (inp.cash * fx.n) % fx.d = 0
            /\ sl * fx.n # 0 =>
                 (get_max_equity_at_risk(inp.acct) * fx.d) % (sl * fx.n) = 0 }

Inputs(localSymbol) == InputsWith(localSymbol, CashBalances)

-----------------------------------------------------------------------------
(* State Store: the functions that read and write entry_data.json *)

\* keyword arguments of save_unit_info_to_json: <<>> when the argument is
\* not passed, <<v>> when it is passed with value v
NoKwargs ==
    [max_unit_size |-> <<>>, current_unit_size |-> <<>>,
     exit_all_price |-> <<>>, is_short |-> <<>>, is_long |-> <<>>,
     long_entry |-> <<>>, short_entry |-> <<>>]

\* kwargs.get(name, False) followed by `if value:` for a number
WritesNum(arg) == arg # <<>> /\ TruthyNum(arg[1])

\* kwargs.get(name, False) followed by `if value:` for a bool
WritesBool(arg) == arg # <<>> /\ arg[1]

\* kwargs.get(name, False) followed by `if value:` for a dict with keys
WritesDict(arg) == arg # <<>>

\* mutant: a field whose argument is not passed is cleared
save_unit_info_to_json_clearing(data, local_symbol, kw) ==
    LET u == data[local_symbol].unitInfo
        unit_info ==
          [maxUnitSize |-> IF WritesNum(kw.max_unit_size)
                           THEN kw.max_unit_size[1] ELSE 0,
           currentUnitSize |-> IF WritesNum(kw.current_unit_size)
                               THEN kw.current_unit_size[1]
                               ELSE 0,
           exitAllPrice |-> IF WritesNum(kw.exit_all_price)
                            THEN kw.exit_all_price[1] ELSE 0,
           isLong |-> IF WritesBool(kw.is_long)
                      THEN kw.is_long[1] ELSE FALSE,
           isShort |-> IF WritesBool(kw.is_short)
                       THEN kw.is_short[1] ELSE FALSE,
           longEntry |-> IF WritesDict(kw.long_entry)
                         THEN kw.long_entry[1] ELSE ZeroEntry,
           shortEntry |-> IF WritesDict(kw.short_entry)
                          THEN kw.short_entry[1] ELSE ZeroEntry]
    IN  [data EXCEPT ![local_symbol].unitInfo = unit_info]

\* mutant: the unit size is written to the first instrument's record,
\* whatever instrument the call names
save_unit_info_to_json_first(data, local_symbol, kw) ==
    [data EXCEPT ![Instruments[1]].unitInfo.maxUnitSize =
                     IF WritesNum(kw.max_unit_size)
                     THEN kw.max_unit_size[1] ELSE @]

\* save_unit_info_to_json: only a truthy argument is written
save_unit_info_to_json(data, local_symbol, kw) ==
    LET u == data[local_symbol].unitInfo
        unit_info ==
          [maxUnitSize |-> IF WritesNum(kw.max_unit_size)
                           THEN kw.max_unit_size[1] ELSE u.maxUnitSize,
           currentUnitSize |-> IF WritesNum(kw.current_unit_size)
                               THEN kw.current_unit_size[1]
                               ELSE u.currentUnitSize,
           exitAllPrice |-> IF WritesNum(kw.exit_all_price)
                            THEN kw.exit_all_price[1] ELSE u.exitAllPrice,
           isLong |-> IF WritesBool(kw.is_long)
                      THEN kw.is_long[1] ELSE u.isLong,
           isShort |-> IF WritesBool(kw.is_short)
                       THEN kw.is_short[1] ELSE u.isShort,
           longEntry |-> IF WritesDict(kw.long_entry)
                         THEN kw.long_entry[1] ELSE u.longEntry,
           shortEntry |-> IF WritesDict(kw.short_entry)
                          THEN kw.short_entry[1] ELSE u.shortEntry]
    IN  [data EXCEPT ![local_symbol].unitInfo = unit_info]

\* the default order_name_list of clear_orders_from_json
DefaultOrderNames ==
    <<"entryA", "entryB", "entryC", "entryD", "slA", "slB", "slC", "slD">>

\* clear_orders_from_json: the loop variable order_data is a key of
\* entryInfo; the zeroed dict is bound to that variable and never stored in
\* data_dict, so the data saved are the data loaded
clear_orders_from_json(data, local_symbol, order_name_list) == data

\* the number of times clear_orders_from_json calls save_data_to_json:
\* once for each listed name that is a key of entryInfo
clear_orders_saves(data, local_symbol, order_name_list) ==
    Cardinality({i \in 1..Len(order_name_list) :
                   order_name_list[i] \in DOMAIN data[local_symbol].entryInfo})

\* mutant: the long stop on the wrong side of the long entry
generate_initial_entry_info_sl_above(localSymbol, inp) ==
    LET ind == inp.ind
        sl_size == get_atr_multiple(localSymbol, ind)
        total_quantity ==
            set_position_size(localSymbol, inp.acct, inp.price, sl_size)
        long_price_condition ==
            adjust_for_price_increments(localSymbol, ind.long_dcu, 1)
        short_price_condition ==
            adjust_for_price_increments(localSymbol, ind.long_dcl, 1)
        long_sl_price == long_price_condition + sl_size
        short_sl_price == short_price_condition + sl_size
    IN  [long_entry |->
           [action |-> "BUY", orderType |-> "MKT", tif |-> "GTC",
            totalQuantity |-> total_quantity, transmit |-> FALSE,
            priceCondition |-> long_price_condition,
            orderRef |-> <<localSymbol, "entry", "A">>,
            isMore |-> TRUE, slPrice |-> long_sl_price],
         short_entry |->
           [action |-> "SELL", orderType |-> "MKT", tif |-> "GTC",
            totalQuantity |-> total_quantity, transmit |-> FALSE,
            priceCondition |-> short_price_condition,
            orderRef |-> <<localSymbol, "entry", "A">>,
            isMore |-> FALSE, slPrice |-> short_sl_price]]

\* generate_initial_entry_info: the two initial entries of a new unit
generate_initial_entry_info(localSymbol, inp) ==
    LET ind == inp.ind
        sl_size == get_atr_multiple(localSymbol, ind)
        total_quantity ==
            set_position_size(localSymbol, inp.acct, inp.price, sl_size)
        long_price_condition ==
            adjust_for_price_increments(localSymbol, ind.long_dcu, 1)
        short_price_condition ==
            adjust_for_price_increments(localSymbol, ind.long_dcl, 1)
        long_sl_price == long_price_condition - sl_size
        short_sl_price == short_price_condition + sl_size
    IN  [long_entry |->
           [action |-> "BUY", orderType |-> "MKT", tif |-> "GTC",
            totalQuantity |-> total_quantity, transmit |-> FALSE,
            priceCondition |-> long_price_condition,
            orderRef |-> <<localSymbol, "entry", "A">>,
            isMore |-> TRUE, slPrice |-> long_sl_price],
         short_entry |->
           [action |-> "SELL", orderType |-> "MKT", tif |-> "GTC",
            totalQuantity |-> total_quantity, transmit |-> FALSE,
            priceCondition |-> short_price_condition,
            orderRef |-> <<localSymbol, "entry", "A">>,
            isMore |-> FALSE, slPrice |-> short_sl_price]]

\* generate_compound_entry_info(instrument, compound_order_json_tags):
\* the json data of the compound entries of the tags, from the json
\* object of the instrument.  raises: the assertion that fails (lines 300,
\* 305), "none" when compound_orders is returned
generate_compound_entry_info(data, localSymbol, ind, json_tags) ==
    LET unit_data == data[localSymbol]
        sl_size == get_atr_multiple(localSymbol, ind)
        total_quantity == PyRound(unit_data.unitInfo.maxUnitSize, 4)
        is_long == unit_data.unitInfo.isLong
        is_short == unit_data.unitInfo.isShort
        tags == {json_tags[k] : k \in 1..Len(json_tags)}
        offset(r) == CASE r = "entryB" -> 1
                       [] r = "entryC" -> 2
                       [] r = "entryD" -> 3
        last_entry(r) == CASE r = "entryB" -> unit_data.entryInfo["entryA"]
                           [] r = "entryC" -> unit_data.entryInfo["entryB"]
                           [] r = "entryD" -> unit_data.entryInfo["entryC"]
        price_condition(r) ==
            IF is_long
            THEN last_entry(r).priceCondition
                   + offset(r) * get_atr_multiple(localSymbol, ind)
            ELSE - last_entry(r).priceCondition
                   - offset(r) * get_atr_multiple(localSymbol, ind)
        compound_order(r) ==
            [action |-> IF is_long THEN "BUY" ELSE "SELL",
             orderType |-> "MKT", tif |-> "GTC",
             totalQuantity |-> total_quantity, transmit |-> FALSE,
             priceCondition |-> price_condition(r),
             orderRef |-> <<localSymbol, "entry", offset(r)>>,
             isMore |-> is_long,
             slPrice |-> IF is_long THEN price_condition(r) - sl_size
                         ELSE price_condition(r) + sl_size]
        raises == IF is_long = is_short THEN "AssertionError"
                  ELSE IF ~(tags \subseteq {"entryB", "entryC", "entryD"})
                  THEN "AssertionError"
                  ELSE "none"
    IN  [raises |-> raises,
         compound_orders |-> IF raises = "none"
                             THEN [r \in tags |-> compound_order(r)]
                             ELSE <<>>]

-----------------------------------------------------------------------------
(* Orders *)

\* create_order: an ib_insync Order with one PriceCondition.
\* parent_id = 0: no parent_id argument (Order.parentId keeps its default)
create_order(localSymbol, order_id, action, order_type, tif, total_quantity, transmit, price_condition, is_more, order_ref, parent_id) ==
    [orderId |-> order_id, symbol |-> localSymbol, action |-> action,
     orderType |-> order_type, totalQuantity |-> total_quantity,
     transmit |-> transmit, tif |-> tif, parentId |-> parent_id,
     orderRef |-> order_ref, isMore |-> is_more, price |-> price_condition,
     ocaGroup |-> 0, ocaType |-> 0]

\* ib.oneCancelsAll(orders, ocaGroup, ocaType) on one order
oneCancelsAll(order, oca_group, oca_type) ==
    [order EXCEPT !.ocaGroup = oca_group, !.ocaType = oca_type]

\* mutant: the stop-loss is transmitted as it is placed
create_unit_leg_transmit_sl(data, entry_json_id, localSymbol, first_id) ==
    LET data_dict == data[localSymbol]
        entry_data ==
            IF entry_json_id = "longEntry" THEN data_dict.unitInfo.longEntry
            ELSE IF entry_json_id = "shortEntry"
                 THEN data_dict.unitInfo.shortEntry
            ELSE data_dict.entryInfo[entry_json_id]
        entry_order_ref == entry_data.orderRef
        sl_order_ref == <<localSymbol, "sl">> \o LastChar(entry_order_ref)
        exit_order_ref == <<localSymbol, "exit">> \o LastChar(entry_order_ref)
        exit_price_condition == data_dict.unitInfo.exitAllPrice
        sl_is_more == ~entry_data.isMore
        sl_action == IF entry_data.action = "BUY" THEN "SELL"
                     ELSE IF entry_data.action = "SELL" THEN "BUY"
                     ELSE ""
        entry_order ==
            create_order(localSymbol, first_id, entry_data.action,
                         entry_data.orderType, "GTC",
                         entry_data.totalQuantity, FALSE,
                         entry_data.priceCondition, entry_data.isMore,
                         entry_order_ref, 0)
        sl_order ==
            create_order(localSymbol, first_id + 1, sl_action,
                         entry_data.orderType, "GTC",
                         entry_data.totalQuantity, TRUE,
                         entry_data.slPrice, sl_is_more,
                         sl_order_ref, entry_order.orderId)
        exit_order ==
            create_order(localSymbol, first_id + 2, sl_action,
                         entry_data.orderType, "GTC",
                         entry_data.totalQuantity, TRUE,
                         exit_price_condition, sl_is_more,
                         exit_order_ref, entry_order.orderId)
    IN  [entry_order |-> entry_order, sl_order |-> sl_order,
         exit_order |-> exit_order]

\* mutant: stop-loss and exit trigger on the same side as the entry
create_unit_leg_same_side(data, entry_json_id, localSymbol, first_id) ==
    LET data_dict == data[localSymbol]
        entry_data ==
            IF entry_json_id = "longEntry" THEN data_dict.unitInfo.longEntry
            ELSE IF entry_json_id = "shortEntry"
                 THEN data_dict.unitInfo.shortEntry
            ELSE data_dict.entryInfo[entry_json_id]
        entry_order_ref == entry_data.orderRef
        sl_order_ref == <<localSymbol, "sl">> \o LastChar(entry_order_ref)
        exit_order_ref == <<localSymbol, "exit">> \o LastChar(entry_order_ref)
        exit_price_condition == data_dict.unitInfo.exitAllPrice
        sl_is_more == entry_data.isMore
        sl_action == IF entry_data.action = "BUY" THEN "SELL"
                     ELSE IF entry_data.action = "SELL" THEN "BUY"
                     ELSE ""
        entry_order ==
            create_order(localSymbol, first_id, entry_data.action,
                         entry_data.orderType, "GTC",
                         entry_data.totalQuantity, FALSE,
                         entry_data.priceCondition, entry_data.isMore,
                         entry_order_ref, 0)
        sl_order ==
            create_order(localSymbol, first_id + 1, sl_action,
                         entry_data.orderType, "GTC",
                         entry_data.totalQuantity, FALSE,
                         entry_data.slPrice, sl_is_more,
                         sl_order_ref, entry_order.orderId)
        exit_order ==
            create_order(localSymbol, first_id + 2, sl_action,
                         entry_data.orderType, "GTC",
                         entry_data.totalQuantity, TRUE,
                         exit_price_condition, sl_is_more,
                         exit_order_ref, entry_order.orderId)
    IN  [entry_order |-> entry_order, sl_order |-> sl_order,
         exit_order |-> exit_order]

\* create_unit_leg: entry, stop-loss and exit of one json entry ("long" and
\* "short" occur in the ids longEntry and shortEntry only; tif is not
\* passed on, so every order has create_order's default "GTC").
\* first_id: the id the first getReqId() call returns
create_unit_leg(data, entry_json_id, localSymbol, first_id) ==
    LET data_dict == data[localSymbol]
        entry_data ==
            IF entry_json_id = "longEntry" THEN data_dict.unitInfo.longEntry
            ELSE IF entry_json_id = "shortEntry"
                 THEN data_dict.unitInfo.shortEntry
            ELSE data_dict.entryInfo[entry_json_id]
        entry_order_ref == entry_data.orderRef
        sl_order_ref == <<localSymbol, "sl">> \o LastChar(entry_order_ref)
        exit_order_ref == <<localSymbol, "exit">> \o LastChar(entry_order_ref)
        exit_price_condition == data_dict.unitInfo.exitAllPrice
        sl_is_more == ~entry_data.isMore
        sl_action == IF entry_data.action = "BUY" THEN "SELL"
                     ELSE IF entry_data.action = "SELL" THEN "BUY"
                     ELSE ""
        entry_order ==
            create_order(localSymbol, first_id, entry_data.action,
                         entry_data.orderType, "GTC",
                         entry_data.totalQuantity, FALSE,
                         entry_data.priceCondition, entry_data.isMore,
                         entry_order_ref, 0)
        sl_order ==
            create_order(localSymbol, first_id + 1, sl_action,
                         entry_data.orderType, "GTC",
                         entry_data.totalQuantity, FALSE,
                         entry_data.slPrice, sl_is_more,
                         sl_order_ref, entry_order.orderId)
        exit_order ==
            create_order(localSymbol, first_id + 2, sl_action,
                         entry_data.orderType, "GTC",
                         entry_data.totalQuantity, TRUE,
                         exit_price_condition, sl_is_more,
                         exit_order_ref, entry_order.orderId)
    IN  [entry_order |-> entry_order, sl_order |-> sl_order,
         exit_order |-> exit_order]

\* mutant: every order of the two legs is put into the group
create_initial_entry_orders_oca_all(data, localSymbol, first_id) ==
    LET long_entry_attempts ==
            create_unit_leg(data, "longEntry", localSymbol, first_id)
        short_entry_attempts ==
            create_unit_leg(data, "shortEntry", localSymbol, first_id + 3)
        oca_group == first_id + 6
    IN  << oneCancelsAll(long_entry_attempts.entry_order, oca_group, 1),
           oneCancelsAll(long_entry_attempts.sl_order, oca_group, 1),
           oneCancelsAll(long_entry_attempts.exit_order, oca_group, 1),
           oneCancelsAll(short_entry_attempts.entry_order, oca_group, 1),
           oneCancelsAll(short_entry_attempts.sl_order, oca_group, 1),
           oneCancelsAll(short_entry_attempts.exit_order, oca_group, 1) >>

\* create_initial_entry_orders: both initial legs, their entries in one
\* one-cancels-all group of type 1
create_initial_entry_orders(data, localSymbol, first_id) ==
    LET long_entry_attempts ==
            create_unit_leg(data, "longEntry", localSymbol, first_id)
        short_entry_attempts ==
            create_unit_leg(data, "shortEntry", localSymbol, first_id + 3)
        oca_group == first_id + 6
    IN  << oneCancelsAll(long_entry_attempts.entry_order, oca_group, 1),
           long_entry_attempts.sl_order,
           long_entry_attempts.exit_order,
           oneCancelsAll(short_entry_attempts.entry_order, oca_group, 1),
           short_entry_attempts.sl_order,
           short_entry_attempts.exit_order >>

-----------------------------------------------------------------------------
(* One run of the loop body of IBAlgoStrategy.run for one instrument.      *)
(* The body is a chain of blocks over a record st = [store, venue, trace,  *)
(* exc, unit_data, remaining_orders]; a block does nothing once an         *)
(* exception is pending, which is how the exception leaves run().          *)

Ev(ev, localSymbol, id, tag) ==
    [ev |-> ev, sym |-> localSymbol, id |-> id, tag |-> tag]

\* mutant: an exception is swallowed and the run goes on
Raised_swallowed(st) == FALSE

\* run() has no try / except: once a statement has raised, no later
\* statement of the run is executed
Raised(st) == st.exc # "none"

Raise(st, localSymbol, exc, line) ==
    [st EXCEPT !.exc = exc,
               !.trace = @ \o <<Ev("raise", localSymbol, line, exc)>>]

MinOf(S) == CHOOSE m \in S : \A x \in S : m <= x

MaxOf(S) == CHOOSE m \in S : \A x \in S : m >= x

RECURSIVE Ascending(_)
Ascending(S) ==
    IF S = {} THEN <<>> ELSE <<MinOf(S)>> \o Ascending(S \ {MinOf(S)})

\* mutant: the open trades of the other instruments are returned
get_open_trades_others(open, localSymbol) ==
    Ascending({o.orderId : o \in {x \in open : x.symbol # localSymbol}})

\* get_open_trades(instrument): the ids of the open trades whose contract
\* has the instrument's localSymbol, in the order they were placed
get_open_trades(open, localSymbol) ==
    Ascending({o.orderId : o \in {x \in open : x.symbol = localSymbol}})

\* ib.client.getReqId(): the venue hands out ids that no open order has
FirstReqId(open) ==
    1 + MaxOf({0} \cup {o.orderId : o \in open} \cup {o.ocaGroup : o \in open})

RECURSIVE Repeat(_, _)
Repeat(e, n) == IF n <= 0 THEN <<>> ELSE <<e>> \o Repeat(e, n - 1)

\* mutant: the orders are placed from the last to the first
place_orders_reversed(st, localSymbol, orders) ==
    [st EXCEPT
       !.venue = @ \cup {orders[i] : i \in 1..Len(orders)},
       !.trace = @ \o [i \in 1..Len(orders) |->
                         Ev("place", localSymbol,
                            orders[Len(orders) + 1 - i].orderId, "")]]

\* the loop `for o in orders: self.ib.placeOrder(instrument, o)`
place_orders(st, localSymbol, orders) ==
    [st EXCEPT
       !.venue = @ \cup {orders[i] : i \in 1..Len(orders)},
       !.trace = @ \o [i \in 1..Len(orders) |->
                         Ev("place", localSymbol, orders[i].orderId, "")]]

(* ---- the flat case, lines 82-118 ---- *)

\* line 89
flat_clear(st, localSymbol) ==
    IF Raised(st) THEN st
    ELSE [st EXCEPT
            !.store = clear_orders_from_json(@, localSymbol, DefaultOrderNames),
            !.trace = @ \o Repeat(
                Ev("save", localSymbol, 0, "clear_orders_from_json"),
                clear_orders_saves(st.store, localSymbol, DefaultOrderNames))]

\* lines 90-91
flat_cancel(st, localSymbol) ==
    IF Raised(st) THEN st
    ELSE LET ids == get_open_trades(st.venue, localSymbol)
         IN  [st EXCEPT
                !.venue = {o \in @ : \A i \in 1..Len(ids) :
                                       o.orderId # ids[i]},
                !.trace = @ \o [i \in 1..Len(ids) |->
                                  Ev("cancel", localSymbol, ids[i], "")]]

\* lines 97-105
flat_save(st, localSymbol, loc, inp) ==
    IF Raised(st) THEN st
    ELSE LET initial_entry_info == generate_initial_entry_info(localSymbol, inp)
             kw == [NoKwargs EXCEPT
                      !.max_unit_size = <<loc.max_unit_size>>,
                      !.current_unit_size = <<loc.current_unit_size>>,
                      !.long_entry = <<initial_entry_info.long_entry>>,
                      !.short_entry = <<initial_entry_info.short_entry>>]
         IN  [st EXCEPT
                !.store = save_unit_info_to_json(@, localSymbol, kw),
                !.trace = @ \o <<Ev("save", localSymbol, 0,
                                    "save_unit_info_to_json")>>]

\* lines 112-116
flat_place(st, localSymbol) ==
    IF Raised(st) THEN st
    ELSE place_orders(st, localSymbol,
             create_initial_entry_orders(st.store, localSymbol,
                                         FirstReqId(st.venue)))

run_flat(st, localSymbol, loc, inp) ==
    flat_place(
      flat_save(
        flat_cancel(
          flat_clear(st, localSymbol), localSymbol), localSymbol, loc, inp),
      localSymbol)

(* ---- the building case, lines 120-279 ---- *)

\* mutant: the upper bound of the 20-day channel for a long unit too
exit_all_price_of_upper(localSymbol, is_long, is_short, ind) ==
    adjust_for_price_increments(localSymbol, ind.short_dcu, 1)

\* lines 125-141: the unit-wide exit price from the 20-day channel
exit_all_price_of(localSymbol, is_long, is_short, ind) ==
    IF is_long
    THEN adjust_for_price_increments(localSymbol, ind.short_dcl, 1)
    ELSE adjust_for_price_increments(localSymbol, ind.short_dcu, 1)

\* lines 148-152
building_save(st, localSymbol, loc, inp) ==
    IF Raised(st) THEN st
    ELSE LET kw == [NoKwargs EXCEPT
                      !.current_unit_size = <<loc.current_unit_size>>,
                      !.is_short = <<loc.is_short>>,
                      !.is_long = <<loc.is_long>>,
                      !.exit_all_price =
                          <<exit_all_price_of(localSymbol, loc.is_long,
                                              loc.is_short, inp.ind)>>]
         IN  [st EXCEPT
                !.store = save_unit_info_to_json(@, localSymbol, kw),
                !.trace = @ \o <<Ev("save", localSymbol, 0,
                                    "save_unit_info_to_json")>>]

\* lines 155-176: for a new unit (entryA has quantity 0) the initial entry
\* is to be copied to entryA.  unit_data is the symbol's json object, whose
\* keys are unitInfo and entryInfo: unit_data["longEntry"] raises KeyError
\* (and the call of save_order_data_to_json passes no local_symbol, which
\* raises TypeError whatever the arguments are)
building_entry_a(st, localSymbol) ==
    IF Raised(st) THEN st
    ELSE LET unit_data == st.store[localSymbol]
             s1 == [st EXCEPT !.unit_data = unit_data]
         IN  IF unit_data.entryInfo["entryA"].totalQuantity = 0
             THEN Raise(s1, localSymbol, "KeyError", 159)
             ELSE s1

\* lines 179-180: get_open_trades is called without its instrument
\* argument, which raises TypeError before any order is cancelled
building_cancel(st, localSymbol) ==
    IF Raised(st) THEN st
    ELSE Raise(st, localSymbol, "TypeError", 179)

\* lines 186-190: round((max_unit_size - current_unit_size)
\*                      / (max_unit_size / 4)), for max_unit_size > 0
remaining_orders_of(unit_info) ==
    PyRound(EntriesPerUnit * (unit_info.maxUnitSize
                              - unit_info.currentUnitSize),
            unit_info.maxUnitSize)

\* lines 185-195
building_remaining(st, localSymbol) ==
    IF Raised(st) THEN st
    ELSE LET unit_info == st.unit_data.unitInfo
         IN  IF unit_info.maxUnitSize = 0
             THEN Raise(st, localSymbol, "ZeroDivisionError", 189)
             ELSE LET remaining_orders == remaining_orders_of(unit_info)
                      s1 == [st EXCEPT !.remaining_orders = remaining_orders]
                  IN  IF ~(remaining_orders < EntriesPerUnit)
                      THEN Raise(s1, localSymbol, "AssertionError", 191)
                      ELSE IF ~(remaining_orders > 0)
                      THEN Raise(s1, localSymbol, "AssertionError", 193)
                      ELSE s1

\* lines 201-254: the loop over the filled entries reads
\* unit_data["entryData"], a key the json object does not have; its first
\* iteration raises KeyError before an order is created
building_replace(st, localSymbol) ==
    IF Raised(st) THEN st
    ELSE IF EntriesPerUnit - st.remaining_orders > 0
         THEN Raise(st, localSymbol, "KeyError", 204)
         ELSE st

\* lines 257-263: an if / elif chain, so at most one tag is appended
compound_order_json_tags(remaining_orders) ==
    IF remaining_orders >= 1 THEN <<"entryB">>
    ELSE IF remaining_orders >= 2 THEN <<"entryC">>
    ELSE IF remaining_orders = 3 THEN <<"entryD">>
    ELSE <<>>

\* lines 264-265: generate_compound_entry_info; its result is dropped by
\* run(), what is left of the call is an assertion that fails
building_generate(st, localSymbol, inp) ==
    IF Raised(st) THEN st
    ELSE LET tags == compound_order_json_tags(st.remaining_orders)
             info_ret == generate_compound_entry_info(st.store, localSymbol,
                                                      inp.ind, tags)
         IN  IF info_ret.raises # "none"
             THEN Raise(st, localSymbol, info_ret.raises, 300)
             ELSE st

RECURSIVE unit_legs(_, _, _, _)
\* lines 269-273: the legs of create_unit_leg for each tag, in order
unit_legs(data, tags, localSymbol, first_id) ==
    IF tags = <<>> THEN <<>>
    ELSE LET unit_leg == create_unit_leg(data, Head(tags), localSymbol,
                                         first_id)
         IN  <<unit_leg.entry_order, unit_leg.sl_order, unit_leg.exit_order>>
             \o unit_legs(data, Tail(tags), localSymbol, first_id + 3)

\* lines 268-278
building_place(st, localSymbol) ==
    IF Raised(st) THEN st
    ELSE LET tags == compound_order_json_tags(st.remaining_orders)
         IN  place_orders(st, localSymbol,
                          unit_legs(st.store, tags, localSymbol,
                                    FirstReqId(st.venue)))

run_building(st, localSymbol, loc, inp) ==
    building_place(
      building_generate(
        building_replace(
          building_remaining(
            building_cancel(
              building_entry_a(
                building_save(st, localSymbol, loc, inp),
                localSymbol),
              localSymbol),
            localSymbol),
          localSymbol),
        localSymbol, inp),
      localSymbol)

-----------------------------------------------------------------------------
(* whipsaw_0.1.py, the earlier script.  Its json object of a symbol is an  *)
(* ordered dict from an entry type (longEntryA, longSLA, ...) to the data  *)
(* of the order saved under it, held here as a sequence of [key, val].     *)
(* get_base_exchange, set_position_size, get_atr_multiple and              *)
(* adjust_for_price_increments are the same functions in both scripts.     *)

\* the avgPrice of the entry executions reqExecutions() reports for the
\* instrument, oldest first: none, or one fill
EntryFills == { <<>>, <<10800>> }

\* lines 100-109: the value the flat case resets every saved entry to
ClearedEntry ==
    [action |-> "", orderType |-> "", tif |-> "", totalQuantity |-> 0,
     transmit |-> FALSE, priceCondition |-> 0, orderRef |-> <<>>,
     isMore |-> TRUE]

\* `"tok" in orderRef`, for the words the script looks for
Has(ref, tok) == \E i \in 1..Len(ref) : ref[i] = tok

\* d[key] = val on an OrderedDict: a new key goes to the end
DictSet(d, key, val) ==
    IF \E i \in 1..Len(d) : d[i].key = key
    THEN [i \in 1..Len(d) |->
            IF d[i].key = key THEN [key |-> key, val |-> val] ELSE d[i]]
    ELSE Append(d, [key |-> key, val |-> val])

\* save_order_data_to_json(order, entry_type): the symbol is the first
\* seven characters of the order's orderRef
save_order_data_to_json_v1(data, order, entry_type) ==
    LET symbol == order.orderRef[1]
        updated_entry ==
            [action |-> order.action, orderType |-> order.orderType,
             tif |-> order.tif, totalQuantity |-> order.totalQuantity,
             transmit |-> order.transmit, priceCondition |-> order.price,
             orderRef |-> order.orderRef, isMore |-> order.isMore]
    IN  [data EXCEPT ![symbol] = DictSet(@, entry_type, updated_entry)]

\* place_order: builds (and does not place) an Order with one
\* PriceCondition.  parent_id = 0: no parent_id argument
place_order(localSymbol, order_id, action, order_type, tif, total_quantity, transmit, price_condition, is_more, order_ref, parent_id) ==
    [orderId |-> order_id, symbol |-> localSymbol, action |-> action,
     orderType |-> order_type, totalQuantity |-> total_quantity,
     transmit |-> transmit, tif |-> tif, parentId |-> parent_id,
     orderRef |-> order_ref, isMore |-> is_more, price |-> price_condition,
     ocaGroup |-> 0, ocaType |-> 0]

\* go_long / go_short evaluate set_position_size(sl_size) as the default of
\* total_quantity whether or not the argument is passed: a stop-loss size
\* of zero raises ZeroDivisionError (lines 476, 478)
go_raises(localSymbol, inp) == get_atr_multiple(localSymbol, inp.ind) = 0

\* go_long(instrument, indicators, offset, last_fill_price, is_exit_all,
\* is_compound_order, sl_size, total_quantity); an argument that is not
\* passed is <<>>.  first_id: the id the first getReqId() call returns
go_long(localSymbol, inp, first_id, offset, last_fill_price, is_exit_all, is_compound_order, sl_size_kw, total_quantity_kw) ==
    LET ind == inp.ind
        sl_size == IF sl_size_kw = <<>>
                   THEN get_atr_multiple(localSymbol, ind)
                   ELSE sl_size_kw[1]
        total_quantity ==
            IF total_quantity_kw = <<>>
            THEN set_position_size(localSymbol, inp.acct, inp.price, sl_size)
            ELSE total_quantity_kw[1]
        long_term_high ==
            adjust_for_price_increments(localSymbol, ind.long_dcu, 1)
        long_exit_condition ==
            adjust_for_price_increments(localSymbol, ind.short_dcl, 1)
              + offset * get_atr_multiple(localSymbol, ind)
        compound == /\ is_compound_order
                    /\ last_fill_price # <<>>
                    /\ TruthyNum(last_fill_price[1])
        compound_order_ref == IF compound THEN <<"compound">> ELSE <<>>
        price_condition ==
            IF compound
            THEN last_fill_price[1]
                   + offset * get_atr_multiple(localSymbol, ind)
            ELSE long_term_high
        long_entry ==
            place_order(localSymbol, first_id, "BUY", "MKT", "GTC",
                        total_quantity, FALSE, price_condition, TRUE,
                        <<localSymbol>> \o compound_order_ref
                          \o <<"long", "entry">>, 0)
        long_sl ==
            place_order(localSymbol, first_id + 1, "SELL", "MKT", "GTC",
                        total_quantity, FALSE, price_condition - sl_size,
                        FALSE,
                        <<localSymbol>> \o compound_order_ref
                          \o <<"long", "sl">>, long_entry.orderId)
        long_exit ==
            place_order(localSymbol, first_id + 2, "SELL", "MKT", "GTC",
                        total_quantity, TRUE, long_exit_condition, FALSE,
                        <<localSymbol>> \o compound_order_ref
                          \o <<"long", "exit">>, long_entry.orderId)
    IN  IF is_exit_all
        THEN << place_order(localSymbol, first_id, "SELL", "MKT", "GTC",
                            total_quantity, TRUE, long_exit_condition, FALSE,
                            <<localSymbol, "long", "exit", "all">>, 0) >>
        ELSE <<long_entry, long_sl, long_exit>>

\* go_short: the mirror image, below the long-term low
go_short(localSymbol, inp, first_id, offset, last_fill_price, is_exit_all, is_compound_order, sl_size_kw, total_quantity_kw) ==
    LET ind == inp.ind
        sl_size == IF sl_size_kw = <<>>
                   THEN get_atr_multiple(localSymbol, ind)
                   ELSE sl_size_kw[1]
        total_quantity ==
            IF total_quantity_kw = <<>>
            THEN set_position_size(localSymbol, inp.acct, inp.price, sl_size)
            ELSE total_quantity_kw[1]
        long_term_low ==
            adjust_for_price_increments(localSymbol, ind.long_dcl, 1)
        short_exit_condition ==
            adjust_for_price_increments(localSymbol, ind.short_dcu, 1)
              - offset * get_atr_multiple(localSymbol, ind)
        compound == /\ is_compound_order
                    /\ last_fill_price # <<>>
                    /\ TruthyNum(last_fill_price[1])
        compound_order_ref == IF compound THEN <<"compound">> ELSE <<>>
        price_condition ==
            IF compound
            THEN last_fill_price[1]
                   - offset * get_atr_multiple(localSymbol, ind)
            ELSE long_term_low
        short_entry ==
            place_order(localSymbol, first_id, "SELL", "MKT", "GTC",
                        total_quantity, FALSE, price_condition, FALSE,
                        <<localSymbol>> \o compound_order_ref
                          \o <<"short", "entry">>, 0)
        short_sl ==
            place_order(localSymbol, first_id + 1, "BUY", "MKT", "GTC",
                        total_quantity, FALSE, price_condition + sl_size,
                        TRUE,
                        <<localSymbol>> \o compound_order_ref
                          \o <<"short", "sl">>, short_entry.orderId)
        short_exit ==
            place_order(localSymbol, first_id + 2, "BUY", "MKT", "GTC",
                        total_quantity, TRUE, short_exit_condition, TRUE,
                        <<localSymbol>> \o compound_order_ref
                          \o <<"short", "exit">>, short_entry.orderId)
    IN  IF is_exit_all
        THEN << place_order(localSymbol, first_id, "BUY", "MKT", "GTC",
                            total_quantity, TRUE, short_exit_condition, TRUE,
                            <<localSymbol, "short", "exit", "all">>, 0) >>
        ELSE <<short_entry, short_sl, short_exit>>

\* place_initial_entry_orders: the two initial brackets, their entries in
\* one one-cancels-all group of type 1 (the orders are built, not placed)
place_initial_entry_orders(localSymbol, inp, first_id) ==
    LET sl_size == get_atr_multiple(localSymbol, inp.ind)
        total_quantity ==
            set_position_size(localSymbol, inp.acct, inp.price, sl_size)
        long_entry_attempts ==
            go_long(localSymbol, inp, first_id, 0, <<>>, FALSE, FALSE,
                    <<sl_size>>, <<total_quantity>>)
        short_entry_attempts ==
            go_short(localSymbol, inp, first_id + 3, 0, <<>>, FALSE, FALSE,
                     <<sl_size>>, <<total_quantity>>)
        oca_group == first_id + 6
    IN  << oneCancelsAll(long_entry_attempts[1], oca_group, 1),
           long_entry_attempts[2],
           long_entry_attempts[3],
           oneCancelsAll(short_entry_attempts[1], oca_group, 1),
           short_entry_attempts[2],
           short_entry_attempts[3] >>

\* `"a_b" in orderRef`
HasPair(ref, a, b) ==
    \E i \in 1..(Len(ref) - 1) : ref[i] = a /\ ref[i + 1] = b

\* lines 56-85: the locals of the initial variable setup of whipsaw_0.1.py.
\* The position is the cash balance itself; the unit is measured by the
\* money at risk, |cash_balance * atr multiple * base exchange|, against
\* 2% of the CashBalance in BASE
setup_v1(localSymbol, inp) ==
    LET ind == inp.ind
        fx == get_base_exchange(localSymbol, inp.acct, inp.price)
        cash_balance == inp.cash
        max_unit_size == (inp.acct.baseCash * 2) \div 100
        is_long == is_long_at(cash_balance)
        is_short == is_short_at(cash_balance)
        below == Abs(cash_balance) * get_atr_multiple(localSymbol, ind) * fx.n
                   < max_unit_size * fx.d
    IN  [raises |-> IF ~ind.bars THEN "KeyError" ELSE "none",
         ind |-> ind,
         sl_size |-> get_atr_multiple(localSymbol, ind),
         current_unit_size |-> cash_balance,
         max_unit_size |-> max_unit_size,
         is_long |-> is_long,
         is_short |-> is_short,
         unit_full |-> ~(below /\ (is_long \/ is_short))]

\* lines 137-159: i, the first compound entry that is still to be made,
\* from the quarter of max_unit_size the money at risk lies in
i_at(localSymbol, inp) ==
    LET fx == get_base_exchange(localSymbol, inp.acct, inp.price)
        risk4 == 4 * Abs(inp.cash) * get_atr_multiple(localSymbol, inp.ind)
                   * fx.n
        m == ((inp.acct.baseCash * 2) \div 100) * fx.d
    IN  IF risk4 < m THEN 1
        ELSE IF risk4 < 2 * m THEN 2
        ELSE IF risk4 < 3 * m THEN 3
        ELSE 4

\* lines 87-91: every open order of the instrument is cancelled, whatever
\* the position is
cancel_open_orders(st, localSymbol) ==
    IF Raised(st) THEN st
    ELSE LET ids == get_open_trades(st.venue, localSymbol)
         IN  [st EXCEPT
                !.venue = {o \in @ : \A k \in 1..Len(ids) :
                                       o.orderId # ids[k]},
                !.trace = @ \o [k \in 1..Len(ids) |->
                                  Ev("cancel", localSymbol, ids[k], "")]]

(* ---- the flat case, lines 95-129 ---- *)

\* lines 98-111: every saved entry of the instrument is reset
flat_clear_v1(st, localSymbol) ==
    IF Raised(st) THEN st
    ELSE [st EXCEPT
            !.store[localSymbol] =
                [k \in 1..Len(@) |-> [key |-> @[k].key, val |-> ClearedEntry]],
            !.trace = @ \o <<Ev("save", localSymbol, 0, "clear")>>]

\* lines 117-124: the entry type an initial order is saved under
initial_entry_type(ref) ==
    IF HasPair(ref, "long", "entry") THEN <<"longEntryA">>
    ELSE IF Has(ref, "long") /\ Has(ref, "sl") THEN <<"longSLA">>
    ELSE IF HasPair(ref, "short", "entry") THEN <<"shortEntryA">>
    ELSE IF Has(ref, "short") /\ Has(ref, "sl") THEN <<"shortSLA">>
    ELSE <<>>

\* lines 116-124: the loop that saves the initial orders
RECURSIVE save_initial_orders(_, _, _, _)
save_initial_orders(st, localSymbol, orders, k) ==
    IF k > Len(orders) THEN st
    ELSE LET t == initial_entry_type(orders[k].orderRef)
             s1 == IF t = <<>> THEN st
                   ELSE [st EXCEPT
                           !.store = save_order_data_to_json_v1(@, orders[k],
                                                                t[1]),
                           !.trace = @ \o <<Ev("save", localSymbol,
                                               orders[k].orderId, t[1])>>]
         IN  save_initial_orders(s1, localSymbol, orders, k + 1)

\* lines 115-128: the initial orders are built, saved and placed
flat_orders_v1(st, localSymbol, inp) ==
    IF Raised(st) THEN st
    ELSE IF go_raises(localSymbol, inp)
    THEN Raise(st, localSymbol, "ZeroDivisionError", 476)
    ELSE LET initial_orders ==
                 place_initial_entry_orders(localSymbol, inp,
                                            FirstReqId(st.venue))
         IN  place_orders(
               save_initial_orders(st, localSymbol, initial_orders, 1),
               localSymbol, initial_orders)

run_flat_v1(st, localSymbol, inp) ==
    flat_orders_v1(
      flat_clear_v1(cancel_open_orders(st, localSymbol), localSymbol),
      localSymbol, inp)

(* ---- the building case, lines 133-294 ---- *)

\* lines 163-180: the saved stop-losses that are placed again.  k counts
\* the entries of the json object from 1, count of the source from 0
RECURSIVE stops_from(_, _, _, _, _)
stops_from(d, k, i, is_long, is_short) ==
    IF k > Len(d) THEN <<>>
    ELSE LET ref == d[k].val.orderRef
             rest == stops_from(d, k + 1, i, is_long, is_short)
         IN  IF ~Has(ref, "sl") THEN rest
             ELSE IF is_long /\ ~Has(ref, "long") THEN <<>>
             ELSE IF is_short /\ ~Has(ref, "short") THEN <<>>
             ELSE IF (k - 1) < (i + 2) THEN <<d[k].val>> \o rest
             ELSE rest

\* lines 183-188: the price of the last entry execution; with no entry
\* execution entry_executions[-1] raises IndexError
building_last_fill(st, localSymbol, fills) ==
    IF Raised(st) THEN st
    ELSE IF fills = <<>> THEN Raise(st, localSymbol, "IndexError", 187)
    ELSE st

\* lines 203-214: the entry type a compound order is saved under
compound_entry_type(ref, i) ==
    IF Has(ref, "entry") /\ i = 2 THEN <<"compoundEntryB">>
    ELSE IF Has(ref, "entry") /\ i = 3 THEN <<"compoundEntryC">>
    ELSE IF Has(ref, "entry") /\ i = 4 THEN <<"compoundEntryD">>
    ELSE IF Has(ref, "sl") /\ i = 2 THEN <<"compoundSLB">>
    ELSE IF Has(ref, "sl") /\ i = 3 THEN <<"compoundSLC">>
    ELSE IF Has(ref, "sl") /\ i = 4 THEN <<"compoundSLD">>
    ELSE <<>>

\* lines 197-218: an order of a long bracket is saved, then placed
RECURSIVE save_and_place(_, _, _, _, _)
save_and_place(st, localSymbol, orders, k, i) ==
    IF k > Len(orders) THEN st
    ELSE LET t == compound_entry_type(orders[k].orderRef, i)
             s1 == IF t = <<>> THEN st
                   ELSE [st EXCEPT
                           !.store = save_order_data_to_json_v1(@, orders[k],
                                                                t[1]),
                           !.trace = @ \o <<Ev("save", localSymbol,
                                               orders[k].orderId, t[1])>>]
         IN  save_and_place(place_orders(s1, localSymbol, <<orders[k]>>),
                            localSymbol, orders, k + 1, i)

\* lines 196-219: while i <= 4, a long compound bracket with offset i
RECURSIVE long_compound(_, _, _, _, _)
long_compound(st, localSymbol, inp, i, last_fill_price) ==
    IF Raised(st) \/ i > 4 THEN st
    ELSE IF go_raises(localSymbol, inp)
    THEN Raise(st, localSymbol, "ZeroDivisionError", 476)
    ELSE long_compound(
           save_and_place(st, localSymbol,
                          go_long(localSymbol, inp, FirstReqId(st.venue), i,
                                  last_fill_price, FALSE, TRUE, <<>>, <<>>),
                          1, i),
           localSymbol, inp, i + 1, last_fill_price)

\* lines 222-255: the exit-all order and the saved stop-losses, in one
\* one-cancels-all group of type 2
long_exit_all(st, localSymbol, inp, stops) ==
    IF Raised(st) THEN st
    ELSE IF go_raises(localSymbol, inp)
    THEN Raise(st, localSymbol, "ZeroDivisionError", 476)
    ELSE LET f == FirstReqId(st.venue)
             exit_all == go_long(localSymbol, inp, f, 0, <<>>, TRUE, FALSE,
                                 <<>>, <<inp.cash>>)
             stop_orders ==
                 [k \in 1..Len(stops) |->
                    place_order(localSymbol, f + k, stops[k].action,
                                stops[k].orderType, stops[k].tif,
                                stops[k].totalQuantity, stops[k].transmit,
                                stops[k].priceCondition, stops[k].isMore,
                                stops[k].orderRef, 0)]
             oca == exit_all \o stop_orders
             oca_group == f + Len(oca)
         IN  place_orders(st, localSymbol,
                 [k \in 1..Len(oca) |-> oneCancelsAll(oca[k], oca_group, 2)])

\* lines 261-268: while i < 4, a short compound bracket with offset i
RECURSIVE short_compound(_, _, _, _, _)
short_compound(st, localSymbol, inp, i, last_fill_price) ==
    IF Raised(st) \/ ~(i < 4) THEN st
    ELSE IF go_raises(localSymbol, inp)
    THEN Raise(st, localSymbol, "ZeroDivisionError", 476)
    ELSE short_compound(
           place_orders(st, localSymbol,
                        go_short(localSymbol, inp, FirstReqId(st.venue), i,
                                 last_fill_price, FALSE, TRUE, <<>>, <<>>)),
           localSymbol, inp, i + 1, last_fill_price)

\* lines 271-293: the exit-all order of a short unit.  The saved stops are
\* appended to the group as the dicts they are, and ib.oneCancelsAll sets
\* attributes on its members: with a stop in the list it raises
\* AttributeError
short_exit_all(st, localSymbol, inp, stops) ==
    IF Raised(st) THEN st
    ELSE IF go_raises(localSymbol, inp)
    THEN Raise(st, localSymbol, "ZeroDivisionError", 476)
    ELSE IF stops # <<>>
    THEN Raise(st, localSymbol, "AttributeError", 281)
    ELSE LET f == FirstReqId(st.venue)
             exit_all == go_short(localSymbol, inp, f, 0, <<>>, TRUE, FALSE,
                                  <<>>, <<inp.cash>>)
         IN  place_orders(st, localSymbol,
                          <<oneCancelsAll(exit_all[1], f + 1, 2)>>)

run_building_v1(st, localSymbol, loc, inp, fills) ==
    LET i == i_at(localSymbol, inp)
        stops == stops_from(st.store[localSymbol], 1, i, loc.is_long,
                            loc.is_short)
        last_fill_price == IF fills = <<>> THEN <<>>
                           ELSE <<fills[Len(fills)]>>
        s1 == building_last_fill(cancel_open_orders(st, localSymbol),
                                 localSymbol, fills)
    IN  IF loc.is_long
        THEN long_exit_all(
               long_compound(s1, localSymbol, inp, i, last_fill_price),
               localSymbol, inp, stops)
        ELSE short_exit_all(
               short_compound(s1, localSymbol, inp, i, last_fill_price),
               localSymbol, inp, stops)

\* entry_data.json of whipsaw_0.1.py when the script is first started: an
\* object without entries for every instrument
InitialStores_v1 == { [s \in Symbols |-> <<>>] }

-----------------------------------------------------------------------------
(* The state machine *)

NoInfo ==
    [case |-> "none", exc |-> "none", is_long |-> FALSE, is_short |-> FALSE,
     unit_full |-> TRUE, current_unit_size |-> 0, max_unit_size |-> 0,
     ind |-> NoSnapshot, sl_size |-> 0, i |-> 0, before |-> ZeroRecord]

\* entry_data.json when the script is first started: a zeroed object for
\* every instrument
InitialStores == { [s \in Symbols |-> ZeroRecord] }

\* the two scripts of the directory; both keep their data in
\* entry_data.json, in formats of their own, so one of them is deployed
Versions == {"0.1", "0.2"}

InitialStoresOf(v) == IF v = "0.2" THEN InitialStores ELSE InitialStores_v1

Init ==
    /\ version \in Versions
    /\ store \in InitialStoresOf(version)
    /\ venue = {}
    /\ trace = <<>>
    /\ info = [s \in Symbols |-> NoInfo]
    /\ idx = 1
    /\ status = "idle"
    /\ runs = 0
    /\ ret = NoCall

\* the script is started (by hand or by the scheduler): __init__ runs over
\* an empty list, the main programme adds the instruments and calls run()
StartRun ==
    /\ status # "running"
    /\ runs < MaxInstrumentRuns
    /\ runs' = runs
    /\ status' = "running"
    /\ idx' = 1
    /\ trace' = <<>>
    /\ info' = [s \in Symbols |-> NoInfo]
    /\ UNCHANGED <<version, store, venue, ret>>

StartOf(localSymbol) ==
    [store |-> store, venue |-> venue, trace |-> trace, exc |-> "none",
     unit_data |-> store[localSymbol],
     remaining_orders |-> 0]

InfoOf(localSymbol, loc, case, exc) ==
    [case |-> case, exc |-> exc, is_long |-> loc.is_long,
     is_short |-> loc.is_short, unit_full |-> loc.unit_full,
     current_unit_size |-> loc.current_unit_size,
     max_unit_size |-> loc.max_unit_size, ind |-> loc.ind,
     sl_size |-> loc.sl_size, i |-> 0, before |-> store[localSymbol]]

\* the end of one iteration of `for instrument in self.instruments`: the
\* next instrument, the end of the list, or the exception ending the script
Finish(localSymbol, st, newInfo) ==
    /\ store' = st.store
    /\ venue' = st.venue
    /\ trace' = st.trace
    /\ info' = [info EXCEPT ![localSymbol] = newInfo]
    /\ version' = version
    /\ ret' = ret
    /\ runs' = runs + 1
    /\ IF st.exc # "none"
       THEN status' = "crashed" /\ idx' = idx
       ELSE /\ idx' = idx + 1
            /\ status' = IF idx + 1 > Len(Instruments) THEN "done"
                         ELSE "running"

\* lines 52-62: the setup raises (no bars: line 56; a stop-loss size of
\* zero: line 62) before the position is classified
RunSetupRaises ==
    /\ version = "0.2"
    /\ status = "running"
    /\ runs < MaxInstrumentRuns
    /\ \E inp \in Inputs(Instruments[idx]) :
         LET sym == Instruments[idx]
             loc == setup(sym, inp)
         IN  /\ loc.raises # "none"
             /\ Finish(sym, Raise(StartOf(sym), sym, loc.raises, 62),
                       [NoInfo EXCEPT !.case = "setup", !.exc = loc.raises,
                                      !.before = store[sym]])

\* lines 82-118: no open unit
RunFlat ==
    /\ version = "0.2"
    /\ status = "running"
    /\ runs < MaxInstrumentRuns
    /\ \E inp \in Inputs(Instruments[idx]) :
         LET sym == Instruments[idx]
             loc == setup(sym, inp)
         IN  /\ loc.raises = "none"
             /\ branch(loc.is_long, loc.is_short, loc.unit_full) = "flat"
             /\ LET st == run_flat(StartOf(sym), sym, loc, inp)
                 IN  Finish(sym, st, InfoOf(sym, loc, "flat", st.exc))

\* lines 120-279: an open unit that is not full
RunBuilding ==
    /\ version = "0.2"
    /\ status = "running"
    /\ runs < MaxInstrumentRuns
    /\ \E inp \in Inputs(Instruments[idx]) :
         LET sym == Instruments[idx]
             loc == setup(sym, inp)
         IN  /\ loc.raises = "none"
             /\ branch(loc.is_long, loc.is_short, loc.unit_full) = "building"
             /\ LET st == run_building(StartOf(sym), sym, loc, inp)
                 IN  Finish(sym, st, InfoOf(sym, loc, "building", st.exc))

\* an open unit that is full: the if / elif chain has no branch for it
RunFull ==
    /\ version = "0.2"
    /\ status = "running"
    /\ runs < MaxInstrumentRuns
    /\ \E inp \in Inputs(Instruments[idx]) :
         LET sym == Instruments[idx]
             loc == setup(sym, inp)
         IN  /\ loc.raises = "none"
             /\ branch(loc.is_long, loc.is_short, loc.unit_full) = "full"
             /\ Finish(sym, StartOf(sym), InfoOf(sym, loc, "full", "none"))

(* ---- the loop body of whipsaw_0.1.py ---- *)

\* line 54: get_indicators raises when no historical data came
RunSetupRaises_v1 ==
    /\ version = "0.1"
    /\ status = "running"
    /\ runs < MaxInstrumentRuns
    /\ \E inp \in Inputs(Instruments[idx]) :
         LET sym == Instruments[idx]
             loc == setup_v1(sym, inp)
         IN  /\ loc.raises # "none"
             /\ Finish(sym, Raise(StartOf(sym), sym, loc.raises, 54),
                       [NoInfo EXCEPT !.case = "setup", !.exc = loc.raises,
                                      !.before = store[sym]])

\* lines 87-129: no open position
RunFlat_v1 ==
    /\ version = "0.1"
    /\ status = "running"
    /\ runs < MaxInstrumentRuns
    /\ \E inp \in Inputs(Instruments[idx]) :
         LET sym == Instruments[idx]
             loc == setup_v1(sym, inp)
         IN  /\ loc.raises = "none"
             /\ branch(loc.is_long, loc.is_short, loc.unit_full) = "flat"
             /\ LET st == run_flat_v1(StartOf(sym), sym, inp)
                 IN  Finish(sym, st, InfoOf(sym, loc, "flat", st.exc))

\* lines 87-91, 133-294: an open unit that is not full
RunBuilding_v1 ==
    /\ version = "0.1"
    /\ status = "running"
    /\ runs < MaxInstrumentRuns
    /\ \E inp \in Inputs(Instruments[idx]), fills \in EntryFills :
         LET sym == Instruments[idx]
             loc == setup_v1(sym, inp)
         IN  /\ loc.raises = "none"
             /\ branch(loc.is_long, loc.is_short, loc.unit_full) = "building"
             /\ LET st == run_building_v1(StartOf(sym), sym, loc, inp, fills)
                 IN  Finish(sym, st,
                            [InfoOf(sym, loc, "building", st.exc)
                               EXCEPT !.i = i_at(sym, inp)])

\* lines 87-91: an open unit that is full: its open orders are cancelled
\* and the if / elif chain has no branch for it
RunFull_v1 ==
    /\ version = "0.1"
    /\ status = "running"
    /\ runs < MaxInstrumentRuns
    /\ \E inp \in Inputs(Instruments[idx]) :
         LET sym == Instruments[idx]
             loc == setup_v1(sym, inp)
         IN  /\ loc.raises = "none"
             /\ branch(loc.is_long, loc.is_short, loc.unit_full) = "full"
             /\ LET st == cancel_open_orders(StartOf(sym), sym)
                 IN  Finish(sym, st, InfoOf(sym, loc, "full", "none"))

Next ==
    \/ StartRun
    \/ RunSetupRaises
    \/ RunFlat
    \/ RunBuilding
    \/ RunFull
    \/ RunSetupRaises_v1
    \/ RunFlat_v1
    \/ RunBuilding_v1
    \/ RunFull_v1

Spec == Init /\ [][Next]_vars

(* The setup and the if / elif chain of run() alone, applied to every cash
   balance up to MaxExposure: what one run makes of one live position. *)

InitClassify ==
    /\ version \in Versions
    /\ store \in InitialStoresOf(version)
    /\ venue = {}
    /\ trace = <<>>
    /\ info = [s \in Symbols |-> NoInfo]
    /\ idx = 1
    /\ status = "running"
    /\ runs = 0
    /\ ret = NoCall

\* lines 56-82, 120 for one instrument and one cash balance
Classify ==
    \E i \in 1..Len(Instruments) :
      \E inp \in InputsWith(Instruments[i], (-MaxExposure)..MaxExposure) :
        LET sym == Instruments[i]
            loc == setup(sym, inp)
        IN  /\ version = "0.2"
            /\ runs = 0
            /\ loc.raises = "none"
            /\ runs' = 1
            /\ idx' = i
            /\ info' = [s \in Symbols |->
                          IF s = sym
                          THEN [InfoOf(sym, loc,
                                       branch(loc.is_long, loc.is_short,
                                              loc.unit_full), "none")
                                  EXCEPT !.before = ZeroRecord]
                          ELSE NoInfo]
            /\ UNCHANGED <<version, store, venue, trace, status, ret>>

\* whipsaw_0.1.py, lines 56-95, 133 for one instrument and one cash balance
Classify_v1 ==
    \E i \in 1..Len(Instruments) :
      \E inp \in InputsWith(Instruments[i], (-MaxExposure)..MaxExposure) :
        LET sym == Instruments[i]
            loc == setup_v1(sym, inp)
        IN  /\ version = "0.1"
            /\ runs = 0
            /\ loc.raises = "none"
            /\ runs' = 1
            /\ idx' = i
            /\ info' = [s \in Symbols |->
                          IF s = sym
                          THEN [InfoOf(sym, loc,
                                       branch(loc.is_long, loc.is_short,
                                              loc.unit_full), "none")
                                  EXCEPT !.before = ZeroRecord]
                          ELSE NoInfo]
            /\ UNCHANGED <<version, store, venue, trace, status, ret>>

NextClassify == Classify \/ Classify_v1

ClassifySpec == InitClassify /\ [][NextClassify]_vars

-----------------------------------------------------------------------------
(* entry_data.json as text.  json.dump writes a number as its sign and its  *)
(* decimal digits, a bool as true / false, a string between quotes and an   *)
(* object as its members in order; json.load with                           *)
(* object_pairs_hook=OrderedDict reads them back.                           *)

RECURSIVE DigitsOf(_)
\* the decimal digits of a natural number, most significant first
DigitsOf(n) == IF n < 10 THEN <<n>> ELSE Append(DigitsOf(n \div 10), n % 10)

RECURSIVE ValueOf(_)
\* the natural number a sequence of decimal digits denotes
ValueOf(digits) ==
    IF digits = <<>> THEN 0
    ELSE 10 * ValueOf(SubSeq(digits, 1, Len(digits) - 1))
           + digits[Len(digits)]

\* json.dump of an int
dump_num(n) == [t |-> "num", neg |-> n < 0, digits |-> DigitsOf(Abs(n))]

\* mutant: true is written for False and false for True
dump_bool_swapped(b) == [t |-> IF b THEN "false" ELSE "true"]

\* json.dump of a bool
dump_bool(b) == [t |-> IF b THEN "true" ELSE "false"]

\* json.dump of a str (ensure_ascii=False: the characters as they are)
dump_str(str) == [t |-> "str", chars |-> str]

\* json.load of a number
load_num(v) == IF v.neg THEN - ValueOf(v.digits) ELSE ValueOf(v.digits)

\* json.load of true / false
load_bool(v) == v.t = "true"

\* json.load of a string
load_str(v) == v.chars

\* json.dump of the object of one order
dump_entry(e) ==
    [t |-> "obj",
     members |->
       <<[k |-> "action", v |-> dump_str(e.action)],
         [k |-> "orderType", v |-> dump_str(e.orderType)],
         [k |-> "tif", v |-> dump_str(e.tif)],
         [k |-> "totalQuantity", v |-> dump_num(e.totalQuantity)],
         [k |-> "transmit", v |-> dump_bool(e.transmit)],
         [k |-> "priceCondition", v |-> dump_num(e.priceCondition)],
         [k |-> "orderRef", v |-> dump_str(e.orderRef)],
         [k |-> "isMore", v |-> dump_bool(e.isMore)],
         [k |-> "slPrice", v |-> dump_num(e.slPrice)]>>]

\* the value of the last member with the key (a later member of an object
\* replaces an earlier one of the same key)
Member(obj, key) ==
    LET at == {i \in 1..Len(obj.members) : obj.members[i].k = key}
    IN  obj.members[MaxOf(at)].v

\* json.load of the object of one order
load_entry(obj) ==
    [action |-> load_str(Member(obj, "action")),
     orderType |-> load_str(Member(obj, "orderType")),
     tif |-> load_str(Member(obj, "tif")),
     totalQuantity |-> load_num(Member(obj, "totalQuantity")),
     transmit |-> load_bool(Member(obj, "transmit")),
     priceCondition |-> load_num(Member(obj, "priceCondition")),
     orderRef |-> load_str(Member(obj, "orderRef")),
     isMore |-> load_bool(Member(obj, "isMore")),
     slPrice |-> load_num(Member(obj, "slPrice"))]

\* json.dump of unitInfo
dump_unit_info(u) ==
    [t |-> "obj",
     members |->
       <<[k |-> "maxUnitSize", v |-> dump_num(u.maxUnitSize)],
         [k |-> "currentUnitSize", v |-> dump_num(u.currentUnitSize)],
         [k |-> "exitAllPrice", v |-> dump_num(u.exitAllPrice)],
         [k |-> "isLong", v |-> dump_bool(u.isLong)],
         [k |-> "isShort", v |-> dump_bool(u.isShort)],
         [k |-> "longEntry", v |-> dump_entry(u.longEntry)],
         [k |-> "shortEntry", v |-> dump_entry(u.shortEntry)]>>]

\* json.load of unitInfo
load_unit_info(obj) ==
    [maxUnitSize |-> load_num(Member(obj, "maxUnitSize")),
     currentUnitSize |-> load_num(Member(obj, "currentUnitSize")),
     exitAllPrice |-> load_num(Member(obj, "exitAllPrice")),
     isLong |-> load_bool(Member(obj, "isLong")),
     isShort |-> load_bool(Member(obj, "isShort")),
     longEntry |-> load_entry(Member(obj, "longEntry")),
     shortEntry |-> load_entry(Member(obj, "shortEntry"))]

\* save_data_to_json, line 553: json.dump(data_dict, f)
json_dump(data_dict) ==
    [t |-> "obj",
     members |->
       [i \in 1..Len(Instruments) |->
          [k |-> Instruments[i],
           v |-> [t |-> "obj",
                  members |->
                    <<[k |-> "unitInfo",
                       v |-> dump_unit_info(
                               data_dict[Instruments[i]].unitInfo)],
                      [k |-> "entryInfo",
                       v |-> [t |-> "obj",
                              members |->
                                [j \in 1..Len(EntryTags) |->
                                   [k |-> EntryTags[j],
                                    v |-> dump_entry(
                                            data_dict[Instruments[i]]
                                              .entryInfo[EntryTags[j]])]]]]
                    >>]]]]

\* get_data_from_json, line 546: json.load(entry_data_file)
json_load(text) ==
    [s \in {text.members[i].k : i \in 1..Len(text.members)} |->
       LET obj == Member(text, s)
           entries == Member(obj, "entryInfo")
       IN  [unitInfo |-> load_unit_info(Member(obj, "unitInfo")),
            entryInfo |->
              [r \in {entries.members[j].k : j \in 1..Len(entries.members)}
                 |-> load_entry(Member(entries, r))]]]

-----------------------------------------------------------------------------
(* generate_compound_entry_info alone: run() drops what it returns, so the  *)
(* function is applied here to a json object of a unit that is open, for    *)
(* each volatility snapshot and each list of tags.                          *)

\* json objects of an open unit: the direction flags, maxUnitSize and the
\* trigger prices of the entries saved so far
UnitRecords ==
    { [unitInfo |-> [ZeroUnitInfo EXCEPT !.isLong = f.isLong,
                                         !.isShort = f.isShort,
                                         !.maxUnitSize = f.maxUnitSize,
                                         !.currentUnitSize =
                                             IF f.isShort THEN -150
                                             ELSE 150],
       entryInfo |-> [t \in TagSet |->
                        CASE t = "entryA" ->
                               [action |-> IF f.isShort THEN "SELL"
                                           ELSE "BUY",
                                orderType |-> "MKT", tif |-> "GTC",
                                totalQuantity |-> PyRound(f.maxUnitSize, 4),
                                transmit |-> FALSE, priceCondition |-> f.a,
                                orderRef |-> <<"entry", "A">>,
                                isMore |-> ~f.isShort,
                                slPrice |-> IF f.isShort THEN f.a + 5
                                            ELSE f.a - 5]
                          [] t = "entryB" ->
                               [ZeroEntry EXCEPT !.priceCondition = f.b]
                          [] t = "entryC" ->
                               [ZeroEntry EXCEPT !.priceCondition = f.c]
                          [] OTHER -> ZeroEntry]] :
        f \in [isLong : BOOLEAN, isShort : BOOLEAN,
               maxUnitSize : {960, 1920, 1930},
               a : {10500, 10800}, b : {10505, 10810}, c : {10510}] }

\* the lists run() can build (lines 257-263) and one with a tag that is not
\* a compound entry
TagLists ==
    {<<>>, <<"entryB">>, <<"entryC">>, <<"entryD">>, <<"entryB", "entryC">>,
     <<"entryA">>}

InitCall ==
    /\ version = "0.2"
    /\ \E unit_data \in UnitRecords : store = [s \in Symbols |-> unit_data]
    /\ venue = {}
    /\ trace = <<>>
    /\ info = [s \in Symbols |-> NoInfo]
    /\ idx = 1
    /\ status = "running"
    /\ runs = 0
    /\ ret = NoCall

\* lines 292-349 for one instrument, one snapshot and one list of tags
CallGenerateCompoundEntryInfo ==
    \E localSymbol \in Symbols :
      \E ind \in {x \in Snapshots : x.bars} :
        \E json_tags \in TagLists :
          /\ runs = 0
          /\ runs' = 1
          /\ ret' = [fn |-> "generate_compound_entry_info",
                     localSymbol |-> localSymbol, ind |-> ind,
                     json_tags |-> json_tags,
                     val |-> generate_compound_entry_info(
                               store, localSymbol, ind, json_tags)]
          /\ UNCHANGED <<version, store, venue, trace, info, idx, status>>

\* lines 542-553: get_data_from_json, save_data_to_json of what it
\* returned, get_data_from_json again.  get_data_from_json opens the file
\* next to the script, save_data_to_json writes "entry_data.json" in the
\* working directory: same_dir tells whether that is the same file
\* a pair adjust_for_price_increments has no increment for
OtherPairs == {"USD.JPY"}

\* raw values for adjust_for_price_increments, in points and half points
RawValues == (-MaxRaw)..MaxRaw

\* lines 810-823 for one pair and one raw value num/den, and once more for
\* the value the first call returned
CallAdjustForPriceIncrements ==
    \E localSymbol \in Symbols \cup OtherPairs :
      \E num \in RawValues : \E den \in {1, 2} :
        LET val == adjust_for_price_increments_ret(localSymbol, num, den)
        IN  /\ runs = 0
            /\ runs' = 1
            /\ ret' = [fn |-> "adjust_for_price_increments",
                       localSymbol |-> localSymbol, num |-> num, den |-> den,
                       val |-> val,
                       again |-> IF val.value = <<>> THEN val
                                 ELSE adjust_for_price_increments_ret(
                                        localSymbol, val.value[1], 1)]
            /\ UNCHANGED <<version, store, venue, trace, info, idx, status>>

\* stop distances passed to set_position_size, in points
StopDistances == {-10, -5, 0, 5, 10}

\* lines 775-797 for one pair, one account and one stop distance
CallSetPositionSize ==
    \E localSymbol \in Symbols : \E sl_size \in StopDistances :
      \E price \in MarketPrices :
        \E acct \in [base : AccountBases, baseCash : BaseCashBalances,
                      avail : AvailableFundsValues] :
          /\ runs = 0
          /\ runs' = 1
          /\ ret' = [fn |-> "set_position_size",
                     localSymbol |-> localSymbol, sl_size |-> sl_size,
                     val |-> set_position_size_ret(localSymbol, acct, price,
                                                   sl_size)]
          /\ UNCHANGED <<version, store, venue, trace, info, idx, status>>

\* the lists of order names clear_orders_from_json is called with
OrderNameLists == {DefaultOrderNames, <<"entryA">>, <<"entryB", "entryC">>}

\* lines 513-539 for one symbol and one list of order names
CallClearOrdersFromJson ==
    \E local_symbol \in Symbols : \E order_name_list \in OrderNameLists :
        /\ runs = 0
        /\ runs' = 1
        /\ store' = clear_orders_from_json(store, local_symbol,
                                           order_name_list)
        /\ ret' = [fn |-> "clear_orders_from_json",
                   local_symbol |-> local_symbol,
                   order_name_list |-> order_name_list,
                   before |-> store]
        /\ UNCHANGED <<version, venue, trace, info, idx, status>>

\* keyword arguments save_unit_info_to_json is called with
KwargsSets ==
    [max_unit_size : {<<>>, <<480>>},
     current_unit_size : {<<>>, <<0>>, <<-300>>},
     exit_all_price : {<<>>, <<10600>>},
     is_short : {<<>>, <<TRUE>>, <<FALSE>>},
     is_long : {<<>>, <<TRUE>>},
     long_entry : {<<>>, <<[ZeroEntry EXCEPT !.action = "BUY",
                                             !.totalQuantity = 120]>>},
     short_entry : {<<>>}]

\* lines 434-476 for one symbol and one set of keyword arguments
CallSaveUnitInfoToJson ==
    \E local_symbol \in Symbols : \E kw \in KwargsSets :
        /\ runs = 0
        /\ runs' = 1
        /\ store' = save_unit_info_to_json(store, local_symbol, kw)
        /\ ret' = [fn |-> "save_unit_info_to_json",
                   local_symbol |-> local_symbol, kw |-> kw,
                   before |-> store]
        /\ UNCHANGED <<version, venue, trace, info, idx, status>>

CallRoundTrip ==
    \E same_dir \in BOOLEAN :
        LET entry_data_file == json_dump(store)
            first == json_load(entry_data_file)
            written == json_dump(first)
            second == json_load(IF same_dir THEN written
                                ELSE entry_data_file)
        IN  /\ runs = 0
            /\ runs' = 1
            /\ store' = second
            /\ ret' = [fn |-> "round_trip", same_dir |-> same_dir,
                       before |-> store, first |-> first]
            /\ UNCHANGED <<version, venue, trace, info, idx, status>>

NextCall ==
    \/ CallGenerateCompoundEntryInfo
    \/ CallRoundTrip
    \/ CallAdjustForPriceIncrements
    \/ CallSetPositionSize
    \/ CallClearOrdersFromJson
    \/ CallSaveUnitInfoToJson

CallSpec == InitCall /\ [][NextCall]_vars

-----------------------------------------------------------------------------
(* Properties *)

\* the orders the current pass has placed for a symbol
Placed(localSymbol) ==
    {o \in venue : /\ o.symbol = localSymbol
                   /\ \E i \in 1..Len(trace) :
                        /\ trace[i].ev = "place"
                        /\ trace[i].id = o.orderId}

\* the current pass has run the loop body for the symbol
Ran(localSymbol) == info[localSymbol].case # "none"

IsEntryLeg(o) == \E i \in 1..Len(o.orderRef) : o.orderRef[i] = "entry"

IsStopLeg(o) == \E i \in 1..Len(o.orderRef) : o.orderRef[i] = "sl"

IsExitLeg(o) == \E i \in 1..Len(o.orderRef) : o.orderRef[i] = "exit"

\* remaining_orders as lines 186-190 compute it from the persisted record
\* cannot be evaluated (ZeroDivisionError) or is outside 1..3, the range
\* the assertions of lines 191-195 allow
BadRemaining(localSymbol) ==
    LET u == store[localSymbol].unitInfo
    IN  u.maxUnitSize = 0 \/ remaining_orders_of(u) \notin 1..3

\* the run of the symbol was a building-case run of whipsaw_0.2.py
BuildingRun(localSymbol) ==
    version = "0.2" /\ info[localSymbol].case = "building"

\* C1: in a building-case run whose remaining_orders value (computed from
\* the persisted record) is outside the allowed range, the run ends in an
\* exception and no order of that instrument is placed in the run.
C1_NoOrderOnBadRemaining ==
    \A s \in Symbols :
        (BuildingRun(s) /\ BadRemaining(s))
            => (info[s].exc # "none" /\ status = "crashed" /\ Placed(s) = {})

\* C1 witness: a building-case run has ended with a remaining_orders value
\* outside [0, 4]
C1_Witness ==
    \E s \in Symbols :
        /\ BuildingRun(s)
        /\ store[s].unitInfo.maxUnitSize # 0
        /\ remaining_orders_of(store[s].unitInfo) \notin 0..4
        /\ info[s].exc # "none"

\* C2 (as claimed): when a pass has ended, by the end of the list or by a
\* failure, every instrument of the list has been processed in it.
C2_EveryInstrumentProcessed ==
    status \in {"done", "crashed"} => \A s \in Symbols : Ran(s)

\* C3 (as claimed): the persisted record never has isLong and isShort both
\* true.
C3_NeverLongAndShort ==
    \A s \in Symbols :
        version = "0.2"
            => ~(store[s].unitInfo.isLong /\ store[s].unitInfo.isShort)

\* C4 (as claimed): after a flat-case run on a record that was long or
\* short, the record is flat, its currentUnitSize is 0 and every entry of
\* entryInfo is zeroed.
C4_FlatRunResets ==
    \A s \in Symbols :
        (/\ version = "0.2"
         /\ info[s].case = "flat"
         /\ info[s].exc = "none"
         /\ (info[s].before.unitInfo.isLong
             \/ info[s].before.unitInfo.isShort))
        => /\ ~store[s].unitInfo.isLong
           /\ ~store[s].unitInfo.isShort
           /\ store[s].unitInfo.currentUnitSize = 0
           /\ \A t \in TagSet : store[s].entryInfo[t] = ZeroEntry

\* C5 (as claimed): a run that finds the unit open and full places a
\* stop-loss leg and an exit leg for the unit's entries.
C5_FullRunRefreshesStops ==
    \A s \in Symbols :
        info[s].case = "full"
            => /\ \E o \in Placed(s) : IsStopLeg(o)
               /\ \E o \in Placed(s) : IsExitLeg(o)

\* the run of the symbol found an open unit (more than 100 units long or
\* short) that is not smaller than the maximum unit size
FoundFullUnit(localSymbol) ==
    /\ version = "0.2"
    /\ info[localSymbol].case \in {"flat", "building", "full"}
    /\ Abs(info[localSymbol].current_unit_size) > 100
    /\ ~(Abs(info[localSymbol].current_unit_size)
           < Abs(info[localSymbol].max_unit_size))

\* C6: a run that finds the unit open and full places no entry leg.
C6_NoEntryWhenFull ==
    \A s \in Symbols :
        FoundFullUnit(s) => ~(\E o \in Placed(s) : IsEntryLeg(o))

\* C6 witness: a run has found a full unit and has ended without raising
C6_Witness ==
    \E s \in Symbols : FoundFullUnit(s) /\ info[s].exc = "none"

\* C7 (as claimed): in a run that finds an open unit that is not full,
\* remaining_orders (lines 186-190, from the persisted record) is in 1..3.
C7_NotFullMeansOneToThree ==
    \A s \in Symbols :
        (BuildingRun(s) /\ store[s].unitInfo.maxUnitSize # 0)
            => remaining_orders_of(store[s].unitInfo) \in 1..3

\* C8 (as claimed): remaining_orders is
\* round((maxUnitSize - |currentUnitSize|) / (maxUnitSize / 4)), for a long
\* and for a short unit.
C8_RemainingUsesMagnitude ==
    \A s \in Symbols :
        (BuildingRun(s) /\ store[s].unitInfo.maxUnitSize # 0)
            => remaining_orders_of(store[s].unitInfo)
                 = PyRound(4 * (store[s].unitInfo.maxUnitSize
                                - Abs(store[s].unitInfo.currentUnitSize)),
                           store[s].unitInfo.maxUnitSize)

\* C9: a run classifies the live position x (current_unit_size) as flat
\* exactly when -100 <= x <= 100, as long exactly when x > 100 and as short
\* exactly when x < -100, and never as long and short at once.
C9_Classification ==
    \A s \in Symbols :
        info[s].case \in {"flat", "building", "full"}
        => LET x == info[s].current_unit_size
           IN  /\ (info[s].case = "flat") = (x >= -100 /\ x <= 100)
               /\ info[s].is_long = (x > 100)
               /\ info[s].is_short = (x < -100)
               /\ ~(info[s].is_long /\ info[s].is_short)

\* C9 witness: a position of exactly 100 units has been classified as flat
C9_Witness ==
    \E s \in Symbols :
        /\ info[s].current_unit_size = 100
        /\ info[s].case = "flat"
        /\ ~info[s].is_long

\* C10: the orders a flat-case run places hold a long entry with its stop
\* and a short entry with its stop (at least four legs), exactly one
\* one-cancels-all group, whose members are exactly the two entries, and
\* every entry and every stop has transmit = FALSE.
C10_FlatPlan ==
    \A s \in Symbols :
        (info[s].case = "flat" /\ info[s].exc = "none")
        => LET P == Placed(s)
               entries == {o \in P : IsEntryLeg(o)}
               stops == {o \in P : IsStopLeg(o)}
               groups == {o.ocaGroup : o \in P} \ {0}
           IN  /\ Cardinality(P) >= 4
               /\ Cardinality(entries) = 2
               /\ \E e \in entries : e.action = "BUY"
               /\ \E e \in entries : e.action = "SELL"
               /\ \A e \in entries :
                    \E o \in stops : o.parentId = e.orderId
               /\ \A o \in stops :
                    \E e \in entries : o.parentId = e.orderId
               /\ Cardinality(groups) = 1
               /\ {o \in P : o.ocaGroup # 0} = entries
               /\ \A o \in entries \cup stops : o.transmit = FALSE

\* C10 witness: a flat-case run (of whipsaw_0.1.py; the flat-case runs of
\* whipsaw_0.2.py place six orders as well) has placed its six orders
C10_Witness ==
    \E s \in Symbols :
        /\ version = "0.1"
        /\ info[s].case = "flat"
        /\ info[s].exc = "none"
        /\ Cardinality(Placed(s)) = 6

\* the run of the symbol was a flat-case run that ended without an exception
FlatRunDone(localSymbol) ==
    info[localSymbol].case = "flat" /\ info[localSymbol].exc = "none"

\* C11: in a flat-case run the long entry triggers at the quantized upper
\* bound of the long (55-day) channel and the short entry at its quantized
\* lower bound; the long stop triggers at the long entry price minus the
\* stop distance, the short stop at the short entry price plus the stop
\* distance, and the parent of each stop is its own entry.
C11_InitialEntryPrices ==
    \A s \in Symbols :
        FlatRunDone(s)
        => LET P == Placed(s)
               upper == adjust_for_price_increments(s, info[s].ind.long_dcu, 1)
               lower == adjust_for_price_increments(s, info[s].ind.long_dcl, 1)
               d == info[s].sl_size
               StopOf(e) == {o \in P : IsStopLeg(o) /\ o.parentId = e.orderId}
           IN  /\ \E e \in P : IsEntryLeg(e) /\ e.action = "BUY"
               /\ \E e \in P : IsEntryLeg(e) /\ e.action = "SELL"
               /\ \A e \in P :
                    IsEntryLeg(e)
                    => /\ e.price = IF e.action = "BUY" THEN upper ELSE lower
                       /\ Cardinality(StopOf(e)) = 1
                       /\ \A o \in StopOf(e) :
                            o.price = IF e.action = "BUY" THEN e.price - d
                                      ELSE e.price + d
               /\ \A o \in P :
                    IsStopLeg(o) => \E e \in P : IsEntryLeg(e) /\ o \in StopOf(e)

\* C11 witness: a flat-case run of whipsaw_0.2.py has placed a long entry
\* whose channel bound had to be rounded to the price increment
C11_Witness ==
    \E s \in Symbols :
        /\ version = "0.2"
        /\ FlatRunDone(s)
        /\ \E e \in Placed(s) :
             /\ IsEntryLeg(e)
             /\ e.action = "BUY"
             /\ e.price # info[s].ind.long_dcu

\* C12: after a building-case run the persisted exitAllPrice is the value
\* of that run's snapshot, the quantized lower bound of the short (20-day)
\* channel for a long unit and its quantized upper bound for a short unit,
\* whatever was persisted before.
C12_ExitAllPriceRefreshed ==
    \A s \in Symbols :
        BuildingRun(s)
        => store[s].unitInfo.exitAllPrice
             = IF info[s].is_long
               THEN adjust_for_price_increments(s, info[s].ind.short_dcl, 1)
               ELSE adjust_for_price_increments(s, info[s].ind.short_dcu, 1)

\* C12 witness: a building-case run of a long unit has replaced an
\* exitAllPrice that an earlier run had persisted
C12_Witness ==
    \E s \in Symbols :
        /\ BuildingRun(s)
        /\ info[s].is_long
        /\ info[s].before.unitInfo.exitAllPrice # 0
        /\ info[s].before.unitInfo.exitAllPrice
             # store[s].unitInfo.exitAllPrice

\* remainingTranches of the run of the symbol: remaining_orders of lines
\* 186-190 in whipsaw_0.2.py, 4 - i ("more orders can be placed",
\* whipsaw_0.1.py line 160) in whipsaw_0.1.py
RemainingTranches(localSymbol) ==
    IF version = "0.2"
    THEN remaining_orders_of(store[localSymbol].unitInfo)
    ELSE 4 - info[localSymbol].i

\* the run of the symbol was a building-case run whose remainingTranches
\* value is r, and the broker's answers gave it no reason to fail (there
\* was an entry execution, the stop-loss size was not zero)
BuildingRunWith(localSymbol, r) ==
    /\ info[localSymbol].case = "building"
    /\ info[localSymbol].exc \notin {"IndexError", "ZeroDivisionError"}
    /\ version = "0.2" => store[localSymbol].unitInfo.maxUnitSize # 0
    /\ RemainingTranches(localSymbol) = r

\* C13 (as claimed): a building-case run of whipsaw_0.2.py with
\* remaining_orders = r places, for each of the 4 - r filled entries, a
\* stop-loss leg that shares a one-cancels-all group with an exit leg.
C13_FilledTranchesProtected ==
    \A s \in Symbols : \A r \in 1..3 :
        (version = "0.2" /\ BuildingRunWith(s, r))
        => Cardinality({o \in Placed(s) :
                          /\ IsStopLeg(o)
                          /\ o.ocaGroup # 0
                          /\ \E x \in Placed(s) :
                               IsExitLeg(x) /\ x.ocaGroup = o.ocaGroup})
             >= 4 - r

\* C14 (as claimed): a building-case run with remainingTranches = r in 1..3
\* places exactly r compound entry legs.
C14_OneCompoundEntryPerOpenTranche ==
    \A s \in Symbols : \A r \in 1..3 :
        BuildingRunWith(s, r)
        => Cardinality({o \in Placed(s) : IsEntryLeg(o)}) = r

\* the compound entries a call of generate_compound_entry_info returned
Returned ==
    IF ret.fn = "generate_compound_entry_info" /\ ret.val.raises = "none"
    THEN DOMAIN ret.val.compound_orders
    ELSE {}

\* the offset k and the previous tranche of a compound entry tag
TrancheOffset(r) == CASE r = "entryB" -> 1 [] r = "entryC" -> 2 [] r = "entryD" -> 3
PreviousTag(r) == CASE r = "entryB" -> "entryA" [] r = "entryC" -> "entryB" [] r = "entryD" -> "entryC"

\* C15: a compound entry's trigger price is the previous tranche's price
\* plus k stop distances for a long unit and minus k stop distances for a
\* short unit (a positive price either way), and its stop-loss price is one
\* stop distance below the trigger for a long and above it for a short unit.
C15_CompoundEntryLadder ==
    \A r \in Returned :
        LET unit_data == store[ret.localSymbol]
            d == get_atr_multiple(ret.localSymbol, ret.ind)
            prev == unit_data.entryInfo[PreviousTag(r)].priceCondition
            e == ret.val.compound_orders[r]
        IN  /\ e.priceCondition > 0
            /\ unit_data.unitInfo.isLong =>
                  /\ e.priceCondition = prev + TrancheOffset(r) * d
                  /\ e.slPrice = e.priceCondition - d
            /\ unit_data.unitInfo.isShort =>
                  /\ e.priceCondition = prev - TrancheOffset(r) * d
                  /\ e.slPrice = e.priceCondition + d

\* the tranche size on record for the unit: a quarter of the persisted
\* maxUnitSize (whipsaw_0.2.py); whipsaw_0.1.py keeps no maxUnitSize, what
\* it has on record is the quantity of the initial entries it saved
TrancheOnRecord(localSymbol) ==
    IF version = "0.2"
    THEN {PyRound(store[localSymbol].unitInfo.maxUnitSize, 4)}
    ELSE {store[localSymbol][k].val.totalQuantity :
            k \in {j \in 1..Len(store[localSymbol]) :
                     store[localSymbol][j].key
                       \in {"longEntryA", "shortEntryA"}}}

\* C16 (as claimed): a building-case run with tranches left submits
\* compound entry legs, and each of them has the quantity on record for a
\* tranche of the unit (maxUnitSize / 4, rounded), whatever the volatility
\* of the run's snapshot is.
C16_CompoundEntryQuantity ==
    \A s \in Symbols : \A r \in 1..3 :
        BuildingRunWith(s, r)
        => /\ \E o \in Placed(s) : IsEntryLeg(o)
           /\ \A o \in Placed(s) : \A q \in TrancheOnRecord(s) :
                 IsEntryLeg(o) => o.totalQuantity = q
\* the aggregate exit of a unit (orderRef ..._exit_all)
IsExitAllLeg(o) == \E i \in 1..Len(o.orderRef) : o.orderRef[i] = "all"

\* C17 (as claimed): a building-case run submits exactly one exit-all leg,
\* a GTC market order for the whole position that triggers at the exit-all
\* price, and every stop-loss leg the run submits is in the exit-all leg's
\* one-cancels-all group.
C17_OneExitAllGroupedWithStops ==
    \A s \in Symbols : \A r \in 1..3 :
        BuildingRunWith(s, r)
        => LET exits == {o \in Placed(s) : IsExitAllLeg(o)}
           IN  /\ Cardinality(exits) = 1
               /\ \A x \in exits :
                     /\ x.orderType = "MKT"
                     /\ x.tif = "GTC"
                     /\ Abs(x.totalQuantity)
                          = Abs(info[s].current_unit_size)
                     /\ x.price = exit_all_price_of(s, info[s].is_long,
                                                    info[s].is_short,
                                                    info[s].ind)
                     /\ x.ocaGroup # 0
                     /\ \A o \in Placed(s) :
                           IsStopLeg(o) => o.ocaGroup = x.ocaGroup
\* C18 (as claimed): in the run of an instrument every cancellation comes
\* before the record is persisted and before any order is submitted, and
\* the record is persisted for the last time before the first order is
\* submitted.
C18_CancelPersistSubmit ==
    \A i \in 1..Len(trace) : \A j \in (i + 1)..Len(trace) :
        trace[i].sym = trace[j].sym
        => /\ ~(trace[i].ev = "save" /\ trace[j].ev = "cancel")
           /\ ~(trace[i].ev = "place" /\ trace[j].ev \in {"cancel", "save"})
\* the direction on record in a json object of whipsaw_0.2.py
DirectionOf(unit_data) ==
    IF unit_data.unitInfo.isLong /\ ~unit_data.unitInfo.isShort THEN "long"
    ELSE IF unit_data.unitInfo.isShort /\ ~unit_data.unitInfo.isLong
    THEN "short"
    ELSE "none"

\* C19 (as claimed): when a run finds the unit open in the direction that
\* is on record (long and long, or short and short), the magnitude of the
\* persisted currentUnitSize is not smaller after the run than before.
C19_UnitSizeNeverShrinks ==
    \A s \in Symbols :
        (/\ version = "0.2"
         /\ info[s].case \in {"building", "full"}
         /\ DirectionOf(info[s].before)
              = (IF info[s].is_long THEN "long" ELSE "short")
         /\ DirectionOf(store[s]) = DirectionOf(info[s].before))
        => Abs(store[s].unitInfo.currentUnitSize)
             >= Abs(info[s].before.unitInfo.currentUnitSize)

\* C20 (as claimed): every leg submitted in a run, whatever its kind and
\* the direction of the unit, has a strictly positive quantity.
C20_PositiveQuantity ==
    \A s \in Symbols : \A o \in Placed(s) : o.totalQuantity > 0
\* the legs a stop-loss or exit leg is attached to
ParentsOf(o) ==
    {p \in venue : p.symbol = o.symbol /\ p.orderId = o.parentId}

\* the action of the entry a leg protects: that of its parent, and for a
\* leg without parent (whipsaw_0.1.py) the one its orderRef names
TrancheSides(o) ==
    IF o.parentId # 0 THEN {p.action : p \in ParentsOf(o)}
    ELSE IF Has(o.orderRef, "long") THEN {"BUY"}
    ELSE IF Has(o.orderRef, "short") THEN {"SELL"}
    ELSE {}

\* C21: every stop-loss and exit leg submitted fits the side of the entry
\* it protects: for a BUY entry it is a SELL that triggers below its
\* threshold and the stop threshold is below the entry price, for a SELL
\* entry it is a BUY that triggers above its threshold and the stop
\* threshold is above the entry price.
C21_ProtectiveLegsFitSide ==
    \A s \in Symbols : \A o \in Placed(s) :
        (IsStopLeg(o) \/ IsExitLeg(o))
        => /\ TrancheSides(o) \in {{"BUY"}, {"SELL"}}
           /\ TrancheSides(o) = {"BUY"}
                => /\ o.action = "SELL"
                   /\ ~o.isMore
                   /\ \A p \in ParentsOf(o) :
                         IsStopLeg(o) => o.price < p.price
           /\ TrancheSides(o) = {"SELL"}
                => /\ o.action = "BUY"
                   /\ o.isMore
                   /\ \A p \in ParentsOf(o) :
                         IsStopLeg(o) => o.price > p.price

\* a flat-case run of whipsaw_0.2.py has submitted the stop-loss of the
\* long entry and the stop-loss of the short entry
C21_Witness ==
    \E s \in Symbols :
        /\ version = "0.2"
        /\ FlatRunDone(s)
        /\ \E o \in Placed(s) :
              IsStopLeg(o) /\ TrancheSides(o) = {"BUY"} /\ o.action = "SELL"
        /\ \E o \in Placed(s) :
              IsStopLeg(o) /\ TrancheSides(o) = {"SELL"} /\ o.action = "BUY"
Quantized ==
    /\ ret.fn = "adjust_for_price_increments"
    /\ ret.val.raises = "none"
    /\ ret.val.value # <<>>

\* C23: for every pair with an increment and every raw value x,
\* quantize(x) is a multiple of the increment that no other multiple is
\* nearer to x than, and quantize(quantize(x)) = quantize(x).
C23_QuantizeIdempotent ==
    Quantized
    => LET inc == increment_of(ret.localSymbol)[1]
           q == ret.val.value[1]
       IN  /\ ret.again = ret.val
           /\ q % inc = 0
           /\ 2 * Abs(q * ret.den - ret.num) <= inc * ret.den

\* a raw value that is no multiple of the increment has been quantized,
\* to a value other than zero
C23_Witness ==
    /\ Quantized
    /\ ret.num % (increment_of(ret.localSymbol)[1] * ret.den) # 0
    /\ ret.val.value[1] # 0
    /\ ret.again = ret.val

\* C24 (as claimed): for a pair without increment the call fails with an
\* error, it does not return to its caller.
C24_UnknownInstrumentFails ==
    (/\ ret.fn = "adjust_for_price_increments"
     /\ increment_of(ret.localSymbol) = <<>>)
    => ret.val.raises # "none"
\* C25 (as claimed): for a stop distance of zero or below the position
\* sizing fails with an error, it returns no quantity.
C25_InvalidStopDistanceFails ==
    (ret.fn = "set_position_size" /\ ret.sl_size <= 0)
    => ret.val.raises # "none"
\* the legs attached to an entry leg
ChildrenOf(e) ==
    {o \in venue : o.symbol = e.symbol /\ o.parentId = e.orderId}

\* C26: in every bracket submitted the entry and its stop-loss have
\* transmit = false and the exit, the last leg of the chain, is the only
\* leg with transmit = true; stop-loss and exit carry the order id of the
\* entry as parent.
C26_OnlyLastLegTransmits ==
    \A s \in Symbols : \A e \in Placed(s) :
        IsEntryLeg(e)
        => /\ ~e.transmit
           /\ e.parentId = 0
           /\ \E sl \in ChildrenOf(e) : \E ex \in ChildrenOf(e) :
                 /\ ChildrenOf(e) = {sl, ex}
                 /\ IsStopLeg(sl) /\ ~sl.transmit
                 /\ IsExitLeg(ex) /\ ex.transmit
                 /\ e.orderId < sl.orderId /\ sl.orderId < ex.orderId
                 /\ sl \in Placed(s) /\ ex \in Placed(s)

\* a run of whipsaw_0.2.py has submitted a bracket whose exit leg is
\* transmitted
C26_Witness ==
    \E s \in Symbols : \E e \in Placed(s) :
        /\ IsEntryLeg(e)
        /\ \E ex \in ChildrenOf(e) : ex.transmit /\ ex \in Placed(s)
        /\ version = "0.2"
\* the positions of the trace at which the order is placed
PlacedAt(o) ==
    {i \in 1..Len(trace) : /\ trace[i].ev = "place"
                           /\ trace[i].sym = o.symbol
                           /\ trace[i].id = o.orderId}

\* C27: the legs of a run are submitted one at a time, each once, and a
\* leg that has a parent is submitted after its parent: no stop-loss or
\* exit leg is placed before the entry leg it is attached to.
C27_ParentPlacedFirst ==
    \A s \in Symbols : \A o \in Placed(s) :
        /\ Cardinality(PlacedAt(o)) = 1
        /\ o.parentId # 0
             => \E p \in Placed(s) :
                  /\ p.orderId = o.parentId
                  /\ \A i \in PlacedAt(o) : \A j \in PlacedAt(p) : j < i

\* a run has placed an entry leg and, after it, the stop-loss and the exit
\* attached to it
C27_Witness ==
    \E s \in Symbols : \E e \in Placed(s) :
        /\ IsEntryLeg(e)
        /\ \E sl \in Placed(s) : \E ex \in Placed(s) :
              /\ IsStopLeg(sl) /\ sl.parentId = e.orderId
              /\ IsExitLeg(ex) /\ ex.parentId = e.orderId
              /\ \A i \in PlacedAt(e) : \A j \in PlacedAt(sl) : i < j
              /\ \A i \in PlacedAt(sl) : \A j \in PlacedAt(ex) : i < j
\* the step is the run of the instrument, in the flat or the building case
RunStepOf(localSymbol) ==
    /\ info[localSymbol].case = "none"
    /\ info'[localSymbol].case \in {"flat", "building"}

\* the step cancels the order
CancelledInStep(o) ==
    \E i \in (Len(trace) + 1)..Len(trace') :
        trace'[i].ev = "cancel" /\ trace'[i].id = o.orderId

\* C28 (as claimed): the run of an instrument, in the flat and in the
\* building case, cancels every order that is open for the instrument and
\* leaves the open orders of the other instruments as they are.
C28_CancelsOwnOrdersOnly ==
    [][\A s \in Symbols :
         RunStepOf(s)
         => \A o \in venue :
              /\ o.symbol = s => CancelledInStep(o)
              /\ o.symbol # s => (~CancelledInStep(o) /\ o \in venue')]_vars
\* C29 (as claimed): after clear_orders_from_json(symbol, names) every
\* order of the symbol's entry data that is named in names has all its
\* fields cleared in the persisted record.
C29_NamedOrdersCleared ==
    ret.fn = "clear_orders_from_json"
    => \A k \in 1..Len(ret.order_name_list) :
         ret.order_name_list[k] \in DOMAIN store[ret.local_symbol].entryInfo
         => store[ret.local_symbol].entryInfo[ret.order_name_list[k]]
              = ZeroEntry
\* C30: save_unit_info_to_json changes only unitInfo fields for which an
\* argument is passed: a field whose argument is omitted keeps the value
\* that was persisted, and the entries of entryInfo and the objects of
\* the other symbols are left as they were.
C30_OmittedFieldsKept ==
    ret.fn = "save_unit_info_to_json"
    => LET u == store[ret.local_symbol].unitInfo
           b == ret.before[ret.local_symbol].unitInfo
       IN  /\ ret.kw.max_unit_size = <<>> => u.maxUnitSize = b.maxUnitSize
           /\ ret.kw.current_unit_size = <<>>
                => u.currentUnitSize = b.currentUnitSize
           /\ ret.kw.exit_all_price = <<>> => u.exitAllPrice = b.exitAllPrice
           /\ ret.kw.is_long = <<>> => u.isLong = b.isLong
           /\ ret.kw.is_short = <<>> => u.isShort = b.isShort
           /\ ret.kw.long_entry = <<>> => u.longEntry = b.longEntry
           /\ ret.kw.short_entry = <<>> => u.shortEntry = b.shortEntry
           /\ store[ret.local_symbol].entryInfo
                = ret.before[ret.local_symbol].entryInfo
           /\ \A s \in Symbols \ {ret.local_symbol} :
                 store[s] = ret.before[s]

\* a call that passes exit_all_price only, on a record whose maxUnitSize,
\* currentUnitSize and isLong are set: the price is written, the rest kept
C30_Witness ==
    /\ ret.fn = "save_unit_info_to_json"
    /\ ret.kw = [NoKwargs EXCEPT !.exit_all_price = <<10600>>]
    /\ LET u == store[ret.local_symbol].unitInfo
       IN  /\ u.exitAllPrice = 10600
           /\ ret.before[ret.local_symbol].unitInfo.exitAllPrice # 10600
           /\ u.maxUnitSize # 0
           /\ u.currentUnitSize # 0
           /\ u.isLong
    /\ store[ret.local_symbol].entryInfo["entryA"] # ZeroEntry
\* C31 (as claimed): save_unit_info_to_json writes every value it is
\* given, a falsy one too: current_unit_size = 0 sets the persisted
\* currentUnitSize to 0, is_long = False and is_short = False set the
\* persisted flag to false.
C31_FalsyValuesWritten ==
    ret.fn = "save_unit_info_to_json"
    => LET u == store[ret.local_symbol].unitInfo
       IN  /\ ret.kw.current_unit_size = <<0>> => u.currentUnitSize = 0
           /\ ret.kw.is_long = <<FALSE>> => ~u.isLong
           /\ ret.kw.is_short = <<FALSE>> => ~u.isShort
\* the run of the symbol in the current pass ended without an exception,
\* in the flat or the building case
CompletedRun(localSymbol) ==
    /\ info[localSymbol].case \in {"flat", "building"}
    /\ info[localSymbol].exc = "none"

\* C32: after a completed flat-case or building-case run the orders open
\* for the instrument are legs submitted during that run only: what was
\* open before has been cancelled.
C32_OnlyThisRunsLegsOpen ==
    \A s \in Symbols :
        CompletedRun(s) => {o \in venue : o.symbol = s} \subseteq Placed(s)

\* a completed run that found open orders of its instrument, cancelled
\* them and placed its own
C32_Witness ==
    \E s \in Symbols :
        /\ CompletedRun(s)
        /\ \E i \in 1..Len(trace) :
              trace[i].ev = "cancel" /\ trace[i].sym = s
        /\ Placed(s) # {}
\* the run of the symbol was ended by one of the statements that compute
\* and check remaining_orders (lines 186-195)
AbortedOnRemainingCheck(localSymbol) ==
    \E i \in 1..Len(trace) :
        /\ trace[i].ev = "raise"
        /\ trace[i].sym = localSymbol
        /\ trace[i].id \in 186..195

C34_AbortWritesNothing ==
    \A s \in Symbols :
        (BuildingRun(s) /\ BadRemaining(s))
        => store[s] = info[s].before

\* C35 (as claimed): in the first building-case run of a unit (the tranche
\* record entryA had quantity 0 before the run) entryA is set to the
\* persisted initial entry of the live direction, every field equal; in a
\* later building-case run of the unit entryA is left unchanged.
C35_EntryACopiedFromInitialEntry ==
    \A s \in Symbols :
        BuildingRun(s)
        => LET b == info[s].before
               a == store[s].entryInfo["entryA"]
           IN  IF b.entryInfo["entryA"].totalQuantity = 0
               THEN a = IF info[s].is_long THEN b.unitInfo.longEntry
                        ELSE b.unitInfo.shortEntry
               ELSE a = b.entryInfo["entryA"]

\* the exit levels lines 125-141 derive from the indicator snapshot of the
\* symbol's run: the one of a long unit and the one of a short unit
SnapshotExitLevels(localSymbol) ==
    {exit_all_price_of(localSymbol, TRUE, FALSE, info[localSymbol].ind),
     exit_all_price_of(localSymbol, FALSE, TRUE, info[localSymbol].ind)}

\* C36 (as claimed): every exit leg a run of whipsaw_0.2.py submits, the
\* exit legs of the two initial brackets of a flat-case run included,
\* triggers at an exit level derived from the run's indicator snapshot,
\* never at the exitAllPrice an earlier unit or run left in the record.
C36_ExitLegsAtSnapshotLevel ==
    \A s \in Symbols :
        version = "0.2"
        => \A o \in Placed(s) :
              IsExitLeg(o) => o.price \in SnapshotExitLevels(s)

\* a leg a run has placed is active at the venue: it was submitted with
\* transmit = true, or it is the child of an entry whose last child was
\* submitted with transmit = true
ActiveAtVenue(o, localSymbol) ==
    \/ o.transmit
    \/ /\ o.parentId # 0
       /\ \E c \in Placed(localSymbol) :
             /\ c.parentId = o.parentId
             /\ c.orderId > o.orderId
             /\ c.transmit

\* C37 (as claimed): every stop-loss leg a building-case run submits is
\* active at the venue; no stop is left with transmit = false and no
\* parent.
C37_RebuiltStopsActive ==
    \A s \in Symbols :
        info[s].case = "building"
        => \A o \in Placed(s) : IsStopLeg(o) => ActiveAtVenue(o, s)

\* C38 (as claimed): among the legs one run of whipsaw_0.2.py submits no
\* two carry the same reference tag, also not a leg of the long and a leg
\* of the short initial bracket of a flat-case run.
C38_ReferenceTagsUnique ==
    \A s \in Symbols :
        version = "0.2"
        => \A o1, o2 \in Placed(s) :
              o1.orderRef = o2.orderRef => o1.orderId = o2.orderId

\* C39: a run for instrument X changes only X's entry of the json file:
\* across the step of a run the persisted record of every other instrument
\* stays as it was.
C39_OtherRecordsUnchanged ==
    [][(status = "running" /\ idx \in 1..Len(Instruments))
       => \A s \in Symbols :
             s # Instruments[idx] => store'[s] = store[s]]_vars

\* a run has changed the record of its instrument while the file holds a
\* non-empty record of another instrument
C39_Witness ==
    \E s \in Symbols : \E t \in Symbols :
        /\ Ran(s)
        /\ store[s] # info[s].before
        /\ t # s
        /\ store[t] # ZeroRecord
        /\ store[t] # store[s]
====
